---- MODULE Spec2Model ----
(***************************************************************************)
(* A model of the weather-derivative pricing core: the orchestrator        *)
(* WeatherDerivativeSimulator (simulator.py) with the components it        *)
(* drives: contract validation (config.py), distribution fitting           *)
(* (distributions.py), the pricing engine (pricing.py) and the Monte Carlo *)
(* simulator (monte_carlo.py).                                             *)
(*                                                                         *)
(* Numbers.  Money is a whole number of dollars; a product with a fraction *)
(* (a loading, a probability) is the integer product divided and rounded   *)
(* down.  A probability is a pair weight/denominator.  The process-wide    *)
(* numpy generator is a small deterministic generator: a state, a step     *)
(* function, and an output that is a function of the state.  None is the   *)
(* record [tag |-> "None"].                                                *)
(***************************************************************************)
EXTENDS Integers, Sequences, FiniteSets, TLC

VARIABLES
    session,      \* the WeatherDerivativeSimulator object: its five result fields
    np_random,    \* the state of numpy's process-wide generator (np.random)
    last,         \* the last call made on the session, how it ended, what it returned
    calls,        \* number of calls made so far
    sims          \* the MonteCarloSimulator objects constructed outside a session

vars == <<session, np_random, last, calls, sims>>

None == [tag |-> "None"]

(***************************************************************************)
(* Bounds of the model.                                                    *)
(***************************************************************************)
MaxCalls == 4

(***************************************************************************)
(* config.py: constants.                                                   *)
(***************************************************************************)
MINIMUM_HISTORICAL_YEARS == 5
MIN_LATITUDE == -60
MAX_LATITUDE == 60
MIN_LONGITUDE == -180
MAX_LONGITUDE == 180
DEFAULT_SETTLEMENT_DAYS == 30
MAX_NOTIONAL_PER_CONTRACT == 500000
MIN_SAMPLE_SIZE_PARAMETRIC == 20

(***************************************************************************)
(* Small helpers over sequences of integers.                               *)
(***************************************************************************)
RECURSIVE SumSeq(_)
SumSeq(s) == IF s = <<>> THEN 0 ELSE Head(s) + SumSeq(Tail(s))

Range(s) == {s[i] : i \in 1..Len(s)}

Count(s, v) == Cardinality({i \in 1..Len(s) : s[i] = v})

MinOf(S) == CHOOSE x \in S : \A y \in S : x <= y
MaxOf(S) == CHOOSE x \in S : \A y \in S : x >= y

(***************************************************************************)
(* config.py: ContractSpecification and validate_contract.                 *)
(***************************************************************************)
ContractSpecification(lat, lon, month, year, strike, rate, max_days, settlement) ==
    [tag |-> "ContractSpecification",
     location_lat |-> lat,
     location_lon |-> lon,
     observation_month |-> month,
     observation_year |-> year,
     strike_rainy_days |-> strike,
     payout_rate_per_day |-> rate,
     maximum_payout_days |-> max_days,
     settlement_days |-> settlement]

\* __post_init__: the message of the ValueError it raises, "" when it raises none.
post_init(c) ==
    IF ~(MIN_LATITUDE <= c.location_lat /\ c.location_lat <= MAX_LATITUDE)
    THEN "Latitude out of range"
    ELSE IF ~(MIN_LONGITUDE <= c.location_lon /\ c.location_lon <= MAX_LONGITUDE)
    THEN "Longitude out of range"
    ELSE IF ~(1 <= c.observation_month /\ c.observation_month <= 12)
    THEN "Month must be between 1 and 12"
    ELSE IF c.observation_year < 2025
    THEN "Observation year must be 2025 or later"
    ELSE IF c.strike_rainy_days < 0
    THEN "Strike days cannot be negative"
    ELSE IF c.maximum_payout_days < 0
    THEN "Maximum payout days cannot be negative"
    ELSE IF c.payout_rate_per_day <= 0
    THEN "Payout rate must be positive"
    ELSE IF c.maximum_payout_days * c.payout_rate_per_day > MAX_NOTIONAL_PER_CONTRACT
    THEN "Maximum payout exceeds limit"
    ELSE ""

\* The maximum_payout property.
maximum_payout(c) == c.maximum_payout_days * c.payout_rate_per_day

\* calendar.monthrange(year, month)[1]
IsLeap(year) == (year % 4 = 0 /\ year % 100 # 0) \/ year % 400 = 0

get_days_in_month(month, year) ==
    IF month = 2 THEN (IF IsLeap(year) THEN 29 ELSE 28)
    ELSE IF month \in {4, 6, 9, 11} THEN 30
    ELSE 31

validate_contract_strike_only(contract) ==
    LET days_in_month == get_days_in_month(contract.observation_month,
                                           contract.observation_year)
    IN  IF contract.strike_rainy_days > days_in_month
        THEN [is_valid |-> FALSE, error_msg |-> "Strike exceeds days in month"]
        ELSE [is_valid |-> TRUE, error_msg |-> ""]

validate_contract(contract) ==
    LET days_in_month == get_days_in_month(contract.observation_month,
                                           contract.observation_year)
    IN  IF contract.strike_rainy_days > days_in_month
        THEN [is_valid |-> FALSE, error_msg |-> "Strike exceeds days in month"]
        ELSE IF contract.strike_rainy_days + contract.maximum_payout_days > days_in_month
        THEN [is_valid |-> FALSE,
              error_msg |-> "Strike + max payout days exceeds days in month"]
        ELSE [is_valid |-> TRUE, error_msg |-> ""]

(***************************************************************************)
(* distributions.py: DistributionFit.  The probability of count k is       *)
(* w[k] / den.  An Empirical model's w is its parameters dictionary (keys  *)
(* p_<k>); a parametric model's w tabulates scipy's pmf over 0..SupportMax *)
(* in units of 1/ProbScale, the mass the rounding and the cut leave out    *)
(* being mass above the table.  fitted_from is the sample the model was    *)
(* fitted to.                                                              *)
(***************************************************************************)
SupportMax == 31
ProbScale == 1000
GOF_SIGNIFICANCE_LEVEL == 50        \* 0.05, in units of 1/ProbScale

DistributionFit(type, w, den, aic, gof_pvalue, data) ==
    [tag |-> "DistributionFit",
     distribution_type |-> type,
     w |-> w,
     den |-> den,
     aic |-> aic,
     gof_pvalue |-> gof_pvalue,
     is_good_fit |-> (gof_pvalue > GOF_SIGNIFICANCE_LEVEL),
     fitted_from |-> data]

pmf(d, k) == IF k \in DOMAIN d.w THEN d.w[k] ELSE 0

RECURSIVE cdf(_, _)
cdf(d, k) == IF k < 0 THEN 0 ELSE pmf(d, k) + cdf(d, k - 1)

(***************************************************************************)
(* distributions.py: DistributionFitter.  What scipy computes (the log     *)
(* likelihoods behind AIC, the chi-squared p-value, the optimizer's        *)
(* result) comes from the environment as lib: for each parametric family   *)
(* whether the fit raised, and if not its AIC and its p-value.             *)
(***************************************************************************)
\* DistributionFitter without its check of the sample size.
DistributionFitter_no_size_check(data) ==
    IF \E i \in 1..Len(data) : data[i] < 0
    THEN [error |-> "Data contains negative values"]
    ELSE [error |-> "", data |-> data, n_samples |-> Len(data), sum |-> SumSeq(data)]

DistributionFitter(data) ==
    IF Len(data) < 5
    THEN [error |-> "Need at least 5 data points for distribution fitting"]
    ELSE IF \E i \in 1..Len(data) : data[i] < 0
    THEN [error |-> "Data contains negative values"]
    ELSE [error |-> "", data |-> data, n_samples |-> Len(data), sum |-> SumSeq(data)]

Fitted(fit) == [error |-> "", fit |-> fit]
FitFailed(msg) == [error |-> msg, fit |-> None]

\* Unnormalised weights by the pmf's recurrence, then scaled to ProbScale.
RECURSIVE PoissonU(_, _, _)
PoissonU(sum, n, k) ==
    IF k = 0 THEN 100 ELSE (PoissonU(sum, n, k - 1) * sum) \div (n * k)

RECURSIVE NegBinU(_, _, _, _)
NegBinU(n, p_num, p_den, k) ==
    IF k = 0 THEN 100
    ELSE (NegBinU(n, p_num, p_den, k - 1) * (k + n - 1) * (p_den - p_num))
             \div (k * p_den)

RECURSIVE SumFn(_, _)
SumFn(f, S) ==
    IF S = {} THEN 0
    ELSE LET x == CHOOSE y \in S : TRUE IN f[x] + SumFn(f, S \ {x})

Tabulate(u) ==
    LET total == SumFn(u, DOMAIN u)
    IN  [k \in DOMAIN u |-> (u[k] * ProbScale) \div total]

fit_poisson(fitter, lib) ==
    IF lib.poisson.failed THEN FitFailed("Poisson fitting failed")
    ELSE Fitted(DistributionFit("poisson",
                    Tabulate([k \in 0..SupportMax |->
                                 PoissonU(fitter.sum, fitter.n_samples, k)]),
                    ProbScale, lib.poisson.aic, lib.poisson.gof_pvalue, fitter.data))

fit_negative_binomial(fitter, lib) ==
    IF lib.nb.failed THEN FitFailed("Negative Binomial fitting failed")
    ELSE Fitted(DistributionFit("negative_binomial",
                    Tabulate([k \in 0..SupportMax |->
                                 NegBinU(lib.nb.n, lib.nb.p_num, lib.nb.p_den, k)]),
                    ProbScale, lib.nb.aic, lib.nb.gof_pvalue, fitter.data))

fit_empirical(fitter) ==
    Fitted(DistributionFit("empirical",
               [v \in Range(fitter.data) |-> Count(fitter.data, v)],
               fitter.n_samples, 0, ProbScale, fitter.data))

\* The selection by AIC turned over: the first of the highest AIC.
MaxByAic(fits) ==
    LET i == CHOOSE j \in 1..Len(fits) :
                 /\ \A k \in 1..Len(fits) : fits[j].aic >= fits[k].aic
                 /\ \A k \in 1..(j - 1) : fits[k].aic < fits[j].aic
    IN  fits[i]

\* min(parametric_fits, key=lambda f: f.aic): the first of the lowest AIC.
MinByAic(fits) ==
    LET i == CHOOSE j \in 1..Len(fits) :
                 /\ \A k \in 1..Len(fits) : fits[j].aic <= fits[k].aic
                 /\ \A k \in 1..(j - 1) : fits[k].aic > fits[j].aic
    IN  fits[i]

select_best_distribution(fitter, lib) ==
    LET empirical == fit_empirical(fitter).fit
        po == fit_poisson(fitter, lib)
        nb == fit_negative_binomial(fitter, lib)
        \* a fit that raises is caught and only warned about
        parametric_fits ==
            IF fitter.n_samples >= MIN_SAMPLE_SIZE_PARAMETRIC
            THEN (IF po.error = "" THEN <<po.fit>> ELSE <<>>)
                 \o (IF nb.error = "" THEN <<nb.fit>> ELSE <<>>)
            ELSE <<>>
    IN  IF fitter.n_samples < MIN_SAMPLE_SIZE_PARAMETRIC
        THEN Fitted(empirical)
        ELSE IF parametric_fits # <<>>
             THEN LET best_parametric == MinByAic(parametric_fits)
                  IN  IF best_parametric.is_good_fit
                      THEN Fitted(best_parametric)
                      ELSE Fitted(empirical)
             ELSE Fitted(empirical)

\* The module-level fit_distribution(data, method).
fit_distribution_fn(data, method, lib) ==
    LET fitter == DistributionFitter(data)
    IN  IF fitter.error # "" THEN FitFailed(fitter.error)
        ELSE IF method = "auto" THEN select_best_distribution(fitter, lib)
        ELSE IF method = "poisson" THEN fit_poisson(fitter, lib)
        ELSE IF method = "negative_binomial" THEN fit_negative_binomial(fitter, lib)
        ELSE IF method = "empirical" THEN fit_empirical(fitter)
        ELSE FitFailed("Unknown method: " \o method)

(***************************************************************************)
(* config.py: PricingParameters and SimulationParameters.  Loadings, the   *)
(* cost of capital and the bootstrap weight are in percent.  NSim stands   *)
(* for n_simulations.                                                      *)
(***************************************************************************)
NSim == 4
RngMod == 16

DEFAULT_VOLATILITY_LOADING == 15
DEFAULT_BASIS_RISK_LOADING == 5
DEFAULT_PROFIT_MARGIN == 20
DEFAULT_OPERATIONAL_COST == 1000
DEFAULT_COST_OF_CAPITAL == 12
DEFAULT_RANDOM_SEED == 42
DEFAULT_BOOTSTRAP_WEIGHT == 50

PricingParameters(vl, bl, pm, oc, coc) ==
    [tag |-> "PricingParameters",
     volatility_loading |-> vl,
     basis_risk_loading |-> bl,
     profit_margin |-> pm,
     operational_cost |-> oc,
     cost_of_capital |-> coc]

\* PricingParameters.__post_init__: the error it raises, or "".  The loadings
\* are in hundredths.
pricing_post_init(p) ==
    IF ~(0 <= p.volatility_loading /\ p.volatility_loading <= 100)
    THEN "Volatility loading must be between 0 and 1"
    ELSE IF ~(0 <= p.basis_risk_loading /\ p.basis_risk_loading <= 100)
    THEN "Basis risk loading must be between 0 and 1"
    ELSE IF ~(0 <= p.profit_margin /\ p.profit_margin <= 100)
    THEN "Profit margin must be between 0 and 1"
    ELSE IF p.operational_cost < 0
    THEN "Operational cost cannot be negative"
    ELSE IF ~(0 <= p.cost_of_capital /\ p.cost_of_capital <= 100)
    THEN "Cost of capital must be between 0 and 1"
    ELSE ""

DefaultPricingParameters ==
    PricingParameters(DEFAULT_VOLATILITY_LOADING, DEFAULT_BASIS_RISK_LOADING,
                      DEFAULT_PROFIT_MARGIN, DEFAULT_OPERATIONAL_COST,
                      DEFAULT_COST_OF_CAPITAL)

SimulationParameters(n, seed, method, weight) ==
    [tag |-> "SimulationParameters",
     n_simulations |-> n,
     random_seed |-> seed,
     method |-> method,
     bootstrap_weight |-> weight]

DefaultSimulationParameters ==
    SimulationParameters(NSim, DEFAULT_RANDOM_SEED, "hybrid", DEFAULT_BOOTSTRAP_WEIGHT)

(***************************************************************************)
(* pricing.py: PricingEngine.                                              *)
(***************************************************************************)
Min(a, b) == IF a <= b THEN a ELSE b
Max(a, b) == IF a >= b THEN a ELSE b

\* The largest r in lo..hi with r * r <= x (np.sqrt, rounded down).
RECURSIVE ISqrtIn(_, _, _)
ISqrtIn(x, lo, hi) ==
    IF lo >= hi THEN lo
    ELSE LET mid == (lo + hi + 1) \div 2
         IN  IF mid * mid <= x THEN ISqrtIn(x, mid, hi) ELSE ISqrtIn(x, lo, mid - 1)

ISqrt(x) == ISqrtIn(x, 0, 46340)

\* The loop "for days in range(strike + 1, strike + max_days + 1)": the sum of
\* f(days) * pmf(days), as a numerator over d.den.
RECURSIVE LoopSum(_, _, _, _)
LoopSum(d, c, days, power) ==
    IF days > c.strike_rainy_days + c.maximum_payout_days THEN 0
    ELSE LET excess_days == days - c.strike_rainy_days
             capped_excess == Min(excess_days, c.maximum_payout_days)
             term == IF power = 1 THEN capped_excess ELSE capped_excess * capped_excess
         IN  term * pmf(d, days) + LoopSum(d, c, days + 1, power)

\* The numerator of prob_extreme = 1 - cdf(strike + max_days).
prob_extreme(d, c) == d.den - cdf(d, c.strike_rainy_days + c.maximum_payout_days)

\* expected_payout as a numerator over d.den, in dollars.
expected_payout_num(c, d) ==
    c.payout_rate_per_day *
        (LoopSum(d, c, c.strike_rainy_days + 1, 1)
            + c.maximum_payout_days * prob_extreme(d, c))

\* The first and second moments of the capped excess days, over d.den; the
\* payout is the capped excess times the rate.
excess_moment(c, d, power) ==
    LoopSum(d, c, c.strike_rainy_days + 1, power)
        + (IF power = 1 THEN c.maximum_payout_days
           ELSE c.maximum_payout_days * c.maximum_payout_days) * prob_extreme(d, c)

calculate_expected_payout(c, d) ==
    LET m1 == excess_moment(c, d, 1)
        m2 == excess_moment(c, d, 2)
        \* variance of the capped excess, numerator over d.den squared
        variance == Max(0, d.den * m2 - m1 * m1)
    IN  [expected_payout |-> expected_payout_num(c, d) \div d.den,
         variance |-> variance,
         std_dev |-> (c.payout_rate_per_day * ISqrt(100 * variance)) \div (10 * d.den)]

CAPITAL_VAR_MULTIPLIER_X2 == 3      \* 1.5, doubled

capital_required_of(std_dev, var_99) ==
    IF var_99 # None
    THEN (CAPITAL_VAR_MULTIPLIER_X2 * var_99.v) \div 2
    ELSE (CAPITAL_VAR_MULTIPLIER_X2 * 233 * std_dev) \div 200

\* The premium breakdown computed from the tuple e that
\* calculate_expected_payout returns.  var_99 is None or [v |-> dollars].
PricingResults(e, contract, params, var_99) ==
    LET expected_payout == e.expected_payout
        pure_premium == expected_payout
        volatility_charge == (params.volatility_loading * e.std_dev) \div 100
        basis_risk_charge == (params.basis_risk_loading * pure_premium) \div 100
        technical_premium == pure_premium + volatility_charge + basis_risk_charge
        capital_required == capital_required_of(e.std_dev, var_99)
        capital_charge ==
            (params.cost_of_capital * capital_required * (DEFAULT_SETTLEMENT_DAYS + 30))
                \div (100 * 365)
        operational_cost == params.operational_cost
        subtotal == technical_premium + capital_charge + operational_cost
        profit_amount == (params.profit_margin * subtotal) \div 100
        gross_premium == subtotal + profit_amount
        max_payout == maximum_payout(contract)
    IN  [tag |-> "PricingResults",
         expected_payout |-> expected_payout,
         variance_payout |-> e.variance,
         std_payout |-> e.std_dev,
         pure_premium |-> pure_premium,
         volatility_charge |-> volatility_charge,
         basis_risk_charge |-> basis_risk_charge,
         technical_premium |-> technical_premium,
         capital_required |-> capital_required,
         capital_charge |-> capital_charge,
         operational_cost |-> operational_cost,
         profit_amount |-> profit_amount,
         gross_premium |-> gross_premium,
         premium_as_pct_notional |->
             IF max_payout > 0 THEN (gross_premium * 100) \div max_payout ELSE 0,
         expected_loss_ratio |->
             IF gross_premium > 0 THEN (expected_payout * 100) \div gross_premium ELSE 0]

\* calculate_premium quoting the pure premium as the gross premium.
calculate_premium_fn_at_cost(contract, distribution, params, var_99) ==
    [PricingResults(calculate_expected_payout(contract, distribution), contract, params,
                    var_99)
        EXCEPT !.gross_premium = calculate_expected_payout(contract, distribution)
                                     .expected_payout]

\* calculate_premium leaving the operational cost out of the gross premium.
calculate_premium_fn_without_cost(contract, distribution, params, var_99) ==
    [PricingResults(calculate_expected_payout(contract, distribution), contract, params,
                    var_99)
        EXCEPT !.gross_premium = @ - params.operational_cost]

calculate_premium_fn(contract, distribution, params, var_99) ==
    PricingResults(calculate_expected_payout(contract, distribution), contract, params,
                   var_99)

\* calculate_break_even_trigger_rate: the numerator of 1 - cdf(strike).
calculate_break_even_trigger_rate(contract, distribution) ==
    distribution.den - cdf(distribution, contract.strike_rainy_days)

(***************************************************************************)
(* numpy's generators.  A generator is its state; Step advances it, and a  *)
(* draw is a function of the state after the step.  np.random.seed(s) sets *)
(* the process-wide state from s; RandomState(None) is a new generator     *)
(* whose state comes from the operating system's entropy.                  *)
(***************************************************************************)
Seeded(seed) == seed % RngMod

Step(state) == (5 * state + 3) % RngMod

\* A uniform index in 0..(n - 1) from a state.
IndexOf(state, n) == (state * n) \div RngMod

\* choice(a, size, replace=True) on the generator rng: the values and the
\* generator afterwards.
RECURSIVE Choice(_, _, _)
Choice(rng, a, size) ==
    IF size = 0 THEN [out |-> <<>>, rng |-> rng]
    ELSE LET s1 == Step(rng)
             rest == Choice(s1, a, size - 1)
         IN  [out |-> <<a[1 + IndexOf(s1, Len(a))]>> \o rest.out, rng |-> rest.rng]

\* One variate of the model d by inversion: the least k whose cumulated weight
\* exceeds the uniform draw; the mass above the table gives its top.
RECURSIVE Invert(_, _, _, _)
Invert(d, u, k, acc) ==
    IF k >= SupportMax THEN k
    ELSE IF (acc + pmf(d, k)) * RngMod > u * d.den THEN k
    ELSE Invert(d, u, k + 1, acc + pmf(d, k))

RECURSIVE Variates(_, _, _)
Variates(d, rng, size) ==
    IF size = 0 THEN <<>>
    ELSE LET s1 == Step(rng)
         IN  <<Invert(d, s1, 0, 0)>> \o Variates(d, s1, size - 1)

\* DistributionFit.rvs(size, random_state=None): every family draws from
\* np.random.RandomState(random_state), a new generator; entropy is the state
\* the operating system gives it.
rvs(d, size, entropy) == Variates(d, entropy, size)

\* np.random.shuffle(x) on the generator rng (Fisher-Yates, from the top).
RECURSIVE Shuffle(_, _, _)
Shuffle(rng, x, i) ==
    IF i <= 1 THEN [out |-> x, rng |-> rng]
    ELSE LET s1 == Step(rng)
             j == 1 + IndexOf(s1, i)
             swapped == [x EXCEPT ![i] = x[j], ![j] = x[i]]
         IN  Shuffle(s1, swapped, i - 1)

(***************************************************************************)
(* monte_carlo.py: MonteCarloSimulator.                                    *)
(***************************************************************************)
\* __init__: keeps its arguments and seeds the process-wide generator.
MonteCarloSimulator(contract, distribution, historical_data, params) ==
    [obj |-> [contract |-> contract, distribution |-> distribution,
              historical_data |-> historical_data, params |-> params],
     rng |-> Seeded(params.random_seed)]

n_bootstrap_of(n, weight) == (n * weight) \div 100

\* simulate_rainy_days on the process-wide generator rng: the sample (or the
\* error numpy raises) and the generator afterwards.
simulate_rainy_days(mc, rng, entropy) ==
    LET n == mc.params.n_simulations
        data == mc.historical_data.a
    IN  IF mc.params.method = "bootstrap"
        THEN IF Len(data) = 0
             THEN [error |-> "a must be non-empty", out |-> <<>>, rng |-> rng]
             ELSE LET b == Choice(rng, data, n)
                  IN  [error |-> "", out |-> b.out, rng |-> b.rng]
        ELSE IF mc.params.method = "parametric"
        THEN [error |-> "", out |-> rvs(mc.distribution, n, entropy), rng |-> rng]
        ELSE IF mc.params.method = "hybrid"
        THEN LET n_bootstrap == n_bootstrap_of(n, mc.params.bootstrap_weight)
                 n_parametric == n - n_bootstrap
             IN  IF Len(data) = 0 /\ n_bootstrap > 0
                 THEN [error |-> "a must be non-empty", out |-> <<>>, rng |-> rng]
                 ELSE LET b == Choice(rng, data, n_bootstrap)
                          parametric_sample == rvs(mc.distribution, n_parametric, entropy)
                          sh == Shuffle(b.rng, b.out \o parametric_sample, n)
                      IN  [error |-> "", out |-> sh.out, rng |-> sh.rng]
        ELSE [error |-> "Unknown simulation method", out |-> <<>>, rng |-> rng]

\* The payout without the cap at maximum_payout_days.
payout_of_uncapped(contract, rainy_days) ==
    Max(rainy_days - contract.strike_rainy_days, 0) * contract.payout_rate_per_day

\* calculate_payout for one count.
payout_of(contract, rainy_days) ==
    LET excess_days == Max(rainy_days - contract.strike_rainy_days, 0)
        capped_excess == Min(excess_days, contract.maximum_payout_days)
    IN  capped_excess * contract.payout_rate_per_day

calculate_payout(contract, rainy_days) ==
    [i \in 1..Len(rainy_days) |-> payout_of(contract, rainy_days[i])]

\* np.percentile(payouts, q): linear interpolation between order statistics.
percentile(payouts, q) ==
    LET sorted == SortSeq(payouts, LAMBDA a, b : a < b)
        pos == (Len(payouts) - 1) * q
        lo == pos \div 100
        hi == IF pos % 100 = 0 THEN lo ELSE lo + 1
    IN  sorted[lo + 1] + ((pos % 100) * (sorted[hi + 1] - sorted[lo + 1])) \div 100

\* calculate_var_cvar averaging the whole sample instead of its tail.
var_cvar_whole_sample(payouts, q) ==
    LET var == percentile(payouts, q)
        excess_losses == payouts
    IN  [var |-> var,
         cvar |-> IF Len(excess_losses) > 0
                  THEN SumSeq(excess_losses) \div Len(excess_losses)
                  ELSE var]

\* One confidence level of calculate_var_cvar.
var_cvar(payouts, q) ==
    LET var == percentile(payouts, q)
        excess_losses == SelectSeq(payouts, LAMBDA x : x >= var)
    IN  [var |-> var,
         cvar |-> IF Len(excess_losses) > 0
                  THEN SumSeq(excess_losses) \div Len(excess_losses)
                  ELSE var]

\* The share of the payouts that are not negative.
trigger_frequency_with_zero(simulated_payouts) ==
    [num |-> Cardinality({i \in 1..Len(simulated_payouts) : simulated_payouts[i] >= 0}),
     den |-> Len(simulated_payouts)]

\* float(np.mean(simulated_payouts > 0)), as the ratio num / den.
trigger_frequency(simulated_payouts) ==
    [num |-> Cardinality({i \in 1..Len(simulated_payouts) : simulated_payouts[i] > 0}),
     den |-> Len(simulated_payouts)]

\* MonteCarloSimulator.run
SimulationResults(mc, simulated_rainy_days) ==
    LET simulated_payouts == calculate_payout(mc.contract, simulated_rainy_days)
        r90 == var_cvar(simulated_payouts, 90)
        r95 == var_cvar(simulated_payouts, 95)
        r99 == var_cvar(simulated_payouts, 99)
    IN  [tag |-> "SimulationResults",
         n_simulations |-> mc.params.n_simulations,
         simulated_rainy_days |-> simulated_rainy_days,
         simulated_payouts |-> simulated_payouts,
         mean_payout |-> SumSeq(simulated_payouts) \div Len(simulated_payouts),
         min_payout |-> MinOf(Range(simulated_payouts)),
         max_payout |-> MaxOf(Range(simulated_payouts)),
         trigger_count |-> Cardinality({i \in 1..Len(simulated_payouts) :
                                           simulated_payouts[i] > 0}),
         trigger_frequency |-> trigger_frequency(simulated_payouts),
         var_90 |-> r90.var, var_95 |-> r95.var, var_99 |-> r99.var,
         cvar_90 |-> r90.cvar, cvar_95 |-> r95.cvar, cvar_99 |-> r99.cvar]

run(mc, rng, entropy) ==
    LET s == simulate_rainy_days(mc, rng, entropy)
    IN  IF s.error # ""
        THEN [error |-> s.error, results |-> None, rng |-> s.rng]
        ELSE [error |-> "", rng |-> s.rng, results |-> SimulationResults(mc, s.out)]

(***************************************************************************)
(* The outcome of a call: the object after it, the generator after it, and *)
(* either the value returned or the exception raised.                      *)
(***************************************************************************)
Return(self, rng, ret) ==
    [self |-> self, rng |-> rng, status |-> "ok", error |-> "", ret |-> ret]

Raise(self, rng, msg) ==
    [self |-> self, rng |-> rng, status |-> "error", error |-> msg, ret |-> None]

ERR_NO_CONTRACT == "Contract not set. Call set_contract() first."
ERR_NO_HISTORY == "Historical data not set. Call set_historical_data() first."
ERR_NO_DISTRIBUTION == "Distribution not fitted. Call fit_distribution() first."

(***************************************************************************)
(* simulator.py: WeatherDerivativeSimulator.                               *)
(***************************************************************************)
NewSession ==
    [contract |-> None,
     historical_data |-> None,
     distribution |-> None,
     pricing_results |-> None,
     simulation_results |-> None]

\* set_contract that also drops what the session derived from the old contract.
set_contract_resetting(self, rng, contract) ==
    LET v == validate_contract(contract)
    IN  IF ~v.is_valid
        THEN Raise(self, rng, "Invalid contract: " \o v.error_msg)
        ELSE Return([self EXCEPT !.contract = contract, !.pricing_results = None,
                                 !.simulation_results = None], rng, TRUE)

set_contract(self, rng, contract) ==
    LET v == validate_contract(contract)
    IN  IF ~v.is_valid
        THEN Raise(self, rng, "Invalid contract: " \o v.error_msg)
        ELSE Return([self EXCEPT !.contract = contract], rng, TRUE)

\* historical_data is stored as [tag |-> "ndarray", a |-> the sequence].
ndarray(counts) == [tag |-> "ndarray", a |-> counts]

ERR_EMPTY_MIN == "zero-size array to reduction operation minimum which has no identity"

set_historical_data(self, rng, rainy_day_counts) ==
    LET self1 == [self EXCEPT !.historical_data = ndarray(rainy_day_counts)]
        data == rainy_day_counts
        n == Len(data)
    IN  IF n = 0
        THEN \* np.mean and np.std of an empty array warn; np.min raises
             Raise(self1, rng, ERR_EMPTY_MIN)
        ELSE LET base == [n_years |-> n,
                          sum_rainy_days |-> SumSeq(data),
                          min_rainy_days |-> MinOf(Range(data)),
                          max_rainy_days |-> MaxOf(Range(data))]
                 statistics ==
                     IF self1.contract # None
                     THEN [has_trigger |-> TRUE,
                           historical_triggers |->
                               Cardinality({i \in 1..n :
                                   data[i] > self1.contract.strike_rainy_days}),
                           stats |-> base]
                     ELSE [has_trigger |-> FALSE,
                           historical_triggers |-> 0,
                           stats |-> base]
             IN  Return(self1, rng, statistics)

fit_distribution(self, rng, method, lib) ==
    IF self.historical_data = None
    THEN Raise(self, rng, ERR_NO_HISTORY)
    ELSE LET r == fit_distribution_fn(self.historical_data.a, method, lib)
         IN  IF r.error # ""
             THEN Raise(self, rng, r.error)
             ELSE Return([self EXCEPT !.distribution = r.fit], rng, r.fit)

\* self.pricing_results = results; return results
calculate_premium_returns(self, rng, results) ==
    Return([self EXCEPT !.pricing_results = results], rng, results)

\* calculate_premium with its two checks in the other order.
calculate_premium_checks_swapped(self, rng, pricing_params) ==
    IF self.distribution = None THEN Raise(self, rng, ERR_NO_DISTRIBUTION)
    ELSE IF self.contract = None THEN Raise(self, rng, ERR_NO_CONTRACT)
    ELSE calculate_premium_returns(self, rng,
                calculate_premium_fn(self.contract, self.distribution,
                    IF pricing_params = None THEN DefaultPricingParameters
                    ELSE pricing_params, None))

calculate_premium(self, rng, pricing_params) ==
    IF self.contract = None THEN Raise(self, rng, ERR_NO_CONTRACT)
    ELSE IF self.distribution = None THEN Raise(self, rng, ERR_NO_DISTRIBUTION)
    ELSE calculate_premium_returns(self, rng,
                calculate_premium_fn(self.contract, self.distribution,
                    IF pricing_params = None THEN DefaultPricingParameters
                    ELSE pricing_params, None))

\* The parameters of the premium run_simulation recomputes.
recalculation_params(pricing_params) == DefaultPricingParameters

\* The recalculation keeping the standard deviation for the capital.
recalculate_premium_keeps_proxy(self) ==
    IF self.pricing_results # None
    THEN [self EXCEPT !.pricing_results =
             calculate_premium_fn(self.contract, self.distribution,
                 recalculation_params(None), None)]
    ELSE self

\* The premium recomputed with the simulated VaR when one was computed before.
recalculate_premium(self) ==
    IF self.pricing_results # None
    THEN [self EXCEPT !.pricing_results =
             calculate_premium_fn(self.contract, self.distribution,
                 recalculation_params(None),
                 [v |-> self.simulation_results.var_99])]
    ELSE self

\* run_simulation once the simulator has run with outcome r.
run_simulation_returns(self, r) ==
    IF r.error # "" THEN Raise(self, r.rng, r.error)
    ELSE Return(recalculate_premium([self EXCEPT !.simulation_results = r.results]),
                r.rng, r.results)

\* The simulator run_simulation builds, run.
run_of(simulator, entropy) == run(simulator.obj, simulator.rng, entropy)

run_simulation(self, rng, sim_params, entropy) ==
    IF self.contract = None THEN Raise(self, rng, ERR_NO_CONTRACT)
    ELSE IF self.distribution = None THEN Raise(self, rng, ERR_NO_DISTRIBUTION)
    ELSE run_simulation_returns(self,
                   run_of(MonteCarloSimulator(self.contract, self.distribution,
                              self.historical_data,
                              IF sim_params = None THEN DefaultSimulationParameters
                              ELSE sim_params),
                          entropy))

ERR_NO_LONGITUDE == "'ContractSpecification' object has no attribute 'longitude'"

\* The fields of a contract the results dictionary reads, in its order.
ResultContractFields ==
    <<"location_lat", "longitude", "observation_month", "observation_year",
      "strike_rainy_days", "payout_rate_per_day", "maximum_payout_days">>

\* The results dictionary price_contract compiles from its local variables,
\* or the attribute error of the first field the contract does not have.
compile_results(contract, hist_stats, distribution, pricing, simulation, method) ==
    LET missing == {i \in 1..Len(ResultContractFields) :
                       ResultContractFields[i] \notin DOMAIN contract}
    IN  IF missing # {}
        THEN [error |-> ERR_NO_LONGITUDE, results |-> None]
        ELSE [error |-> "",
              results |->
                [contract |-> [latitude |-> contract.location_lat,
                               longitude |-> contract["longitude"],
                               observation_month |-> contract.observation_month,
                               observation_year |-> contract.observation_year,
                               strike_rainy_days |-> contract.strike_rainy_days,
                               payout_rate_per_day |-> contract.payout_rate_per_day,
                               maximum_payout_days |-> contract.maximum_payout_days,
                               maximum_payout |-> maximum_payout(contract)],
                 historical_analysis |-> hist_stats,
                 distribution |-> [type |-> distribution.distribution_type,
                                   is_good_fit |-> distribution.is_good_fit,
                                   gof_pvalue |-> distribution.gof_pvalue],
                 pricing |-> pricing,
                 simulation |-> [simulation EXCEPT !.simulated_rainy_days = <<>>,
                                                   !.simulated_payouts = <<>>],
                 profitability |->
                    [expected_profit |-> pricing.gross_premium - pricing.expected_payout,
                     expected_roe |->
                        IF pricing.capital_required > 0
                        THEN ((pricing.gross_premium - pricing.expected_payout) * 100)
                                 \div pricing.capital_required
                        ELSE 0,
                     break_even_trigger_rate |->
                        calculate_break_even_trigger_rate(contract, distribution)],
                 metadata |-> [simulator_version |-> "1.0.0",
                               distribution_method |-> method]]]

\* price_contract.  trace lists the steps it ran, the last one being the one
\* that raised when it ends in an error; locals are its local variables when
\* it ended.
Ended(r, trace, locals) == [r EXCEPT !.ret = [value |-> r.ret, trace |-> trace,
                                              locals |-> locals]]

NoLocals == [hist_stats |-> None, distribution |-> None, pricing |-> None,
             simulation |-> None]

\* price_contract from the results dictionary on: c is what compile_results
\* gave for the local variables l5, r5 the outcome of run_simulation.
price_contract_compiled(c, r5, l5) ==
    IF c.error # ""
    THEN Ended(Raise(r5.self, r5.rng, c.error),
               <<"set_contract", "set_historical_data", "fit_distribution",
                 "calculate_premium", "run_simulation", "compile_results">>, l5)
    ELSE Ended(Return(r5.self, r5.rng, c.results),
               <<"set_contract", "set_historical_data", "fit_distribution",
                 "calculate_premium", "run_simulation", "compile_results">>, l5)

\* simulation = self.run_simulation(sim_params), with outcome r5, and on.
price_contract_simulated(r5, l4, contract, distribution_method) ==
    IF r5.status # "ok"
    THEN Ended(r5, <<"set_contract", "set_historical_data", "fit_distribution",
                     "calculate_premium", "run_simulation">>, l4)
    ELSE price_contract_compiled(
             compile_results(contract, l4.hist_stats, l4.distribution, l4.pricing,
                             r5.ret, distribution_method),
             r5, [l4 EXCEPT !.simulation = r5.ret])

\* pricing = self.calculate_premium(pricing_params), with outcome r4, and on.
price_contract_priced(r4, l3, contract, sim_params, distribution_method, entropy) ==
    IF r4.status # "ok"
    THEN Ended(r4, <<"set_contract", "set_historical_data", "fit_distribution",
                     "calculate_premium">>, l3)
    ELSE price_contract_simulated(run_simulation(r4.self, r4.rng, sim_params, entropy),
                                  [l3 EXCEPT !.pricing = r4.ret], contract,
                                  distribution_method)

\* price_contract going on to the premium after a failed fit.
price_contract_keeps_going(r3, l2, contract, pricing_params, sim_params, distribution_method, entropy) ==
    IF r3.status # "ok"
    THEN Ended([r3 EXCEPT !.self = calculate_premium(r3.self, r3.rng, pricing_params).self],
               <<"set_contract", "set_historical_data", "fit_distribution">>, l2)
    ELSE price_contract_priced(calculate_premium(r3.self, r3.rng, pricing_params),
                               [l2 EXCEPT !.distribution = r3.ret], contract,
                               sim_params, distribution_method, entropy)

\* distribution = self.fit_distribution(method), with outcome r3, and on.
price_contract_fitted(r3, l2, contract, pricing_params, sim_params, distribution_method, entropy) ==
    IF r3.status # "ok"
    THEN Ended(r3, <<"set_contract", "set_historical_data", "fit_distribution">>, l2)
    ELSE price_contract_priced(calculate_premium(r3.self, r3.rng, pricing_params),
                               [l2 EXCEPT !.distribution = r3.ret], contract,
                               sim_params, distribution_method, entropy)

\* hist_stats = self.set_historical_data(historical_data), with outcome r2,
\* and on.
price_contract_analysed(r2, contract, pricing_params, sim_params, distribution_method, lib, entropy) ==
    IF r2.status # "ok"
    THEN Ended(r2, <<"set_contract", "set_historical_data">>, NoLocals)
    ELSE price_contract_fitted(fit_distribution(r2.self, r2.rng, distribution_method, lib),
                               [NoLocals EXCEPT !.hist_stats = r2.ret], contract,
                               pricing_params, sim_params, distribution_method,
                               entropy)

\* self.set_contract(contract), with outcome r1, and on.
price_contract_set(r1, contract, historical_data, pricing_params, sim_params, distribution_method, lib, entropy) ==
    IF r1.status # "ok" THEN Ended(r1, <<"set_contract">>, NoLocals)
    ELSE price_contract_analysed(set_historical_data(r1.self, r1.rng, historical_data),
                                 contract, pricing_params, sim_params,
                                 distribution_method, lib, entropy)

price_contract(self, rng, contract, historical_data, pricing_params, sim_params, distribution_method, lib, entropy) ==
    price_contract_set(set_contract(self, rng, contract), contract, historical_data,
                       pricing_params, sim_params, distribution_method, lib, entropy)

(***************************************************************************)
(* Inputs.                                                                 *)
(***************************************************************************)
ExampleContract == ContractSpecification(17, 73, 10, 2025, 11, 14000, 7, 30)

RawContracts ==
    { ExampleContract,
      ContractSpecification(17, 73, 10, 2025, 11, 14000, 0, 30),   \* no payout days
      ContractSpecification(17, 73, 2, 2028, 22, 14000, 7, 45),    \* 29 days: fits
      ContractSpecification(17, 73, 2, 2025, 22, 14000, 7, 30),    \* 28 days: too long
      ContractSpecification(17, 73, 10, 2025, 32, 14000, 0, 30),   \* strike > days
      ContractSpecification(61, 73, 10, 2025, 11, 14000, 7, 30),
      ContractSpecification(17, 73, 13, 2025, 11, 14000, 7, 30),
      ContractSpecification(17, 73, 10, 2025, -1, 14000, 7, 30),
      ContractSpecification(17, 73, 10, 2025, 11, 14000, -1, 30),
      ContractSpecification(17, 73, 10, 2025, 11, 0, 7, 30),
      ContractSpecification(17, 73, 10, 2025, 11, 100000, 7, 30) }

ExampleHistory == <<7, 10, 9, 12, 8, 14, 9, 11, 8, 10>>

Histories ==
    { ExampleHistory,
      <<7, 8, 9, 10, 11>>,
      <<9, 12, 8>>,
      <<7, 10, -1, 12, 8>>,
      <<>> }

Methods == {"auto", "poisson", "negative_binomial", "empirical", "kernel"}

FitOutcome(failed, aic, gof_pvalue) ==
    [failed |-> failed, aic |-> aic, gof_pvalue |-> gof_pvalue,
     n |-> 10, p_num |-> 1, p_den |-> 2]

\* What scipy can answer for one family: the fit raised, or an AIC and a
\* p-value below, at and above the significance level.
FitOutcomes ==
    {FitOutcome(TRUE, 0, 0)}
        \cup {FitOutcome(FALSE, a, p) : a \in {1, 2}, p \in {20, 50, 800}}

Libs == [poisson : FitOutcomes, nb : FitOutcomes]

\* The answers used with the session's samples.
SessionLibs ==
    { [poisson |-> FitOutcome(FALSE, 1, 800), nb |-> FitOutcome(FALSE, 2, 800)],
      [poisson |-> FitOutcome(TRUE, 0, 0), nb |-> FitOutcome(TRUE, 0, 0)] }

PricingParamsInputs == {None, PricingParameters(20, 7, 25, 1000, 15)}

SimMethods == {"bootstrap", "parametric", "hybrid"}

Seeds == {DEFAULT_RANDOM_SEED, 7}

SimParamsInputs ==
    { None,
      SimulationParameters(NSim, 7, "bootstrap", DEFAULT_BOOTSTRAP_WEIGHT),
      SimulationParameters(NSim, DEFAULT_RANDOM_SEED, "parametric",
                           DEFAULT_BOOTSTRAP_WEIGHT) }

\* The arguments price_contract is called with.
PriceContractInputs ==
    [contract : {ExampleContract,
                 ContractSpecification(17, 73, 2, 2025, 22, 14000, 7, 30),
                 ContractSpecification(17, 73, 13, 2025, 11, 14000, 7, 30)},
     historical_data : {ExampleHistory, <<9, 12, 8>>, <<>>},
     pricing_params : {PricingParameters(20, 7, 25, 1000, 15)},
     sim_params : {None, SimulationParameters(NSim, 7, "bootstrap",
                                              DEFAULT_BOOTSTRAP_WEIGHT)},
     distribution_method : {"auto", "kernel"},
     lib : {[poisson |-> FitOutcome(FALSE, 1, 800), nb |-> FitOutcome(FALSE, 2, 800)]}]

\* The states the operating system's entropy gives a new generator.
Entropy == {1, 6}

(***************************************************************************)
(* The caller: builds its arguments and calls one method of the session.   *)
(***************************************************************************)
Called(op, arg, r) ==
    /\ session' = r.self
    /\ np_random' = r.rng
    /\ last' = [op |-> op, arg |-> arg, status |-> r.status, error |-> r.error,
                ret |-> r.ret]
    /\ calls' = calls + 1
    /\ UNCHANGED sims

\* contract = ContractSpecification(...); sim.set_contract(contract)
SetContract(raw) ==
    /\ calls < MaxCalls
    /\ IF post_init(raw) # ""
       THEN Called("ContractSpecification", raw, Raise(session, np_random, post_init(raw)))
       ELSE Called("set_contract", raw, set_contract(session, np_random, raw))

SetHistoricalData(h) ==
    /\ calls < MaxCalls
    /\ Called("set_historical_data", None, set_historical_data(session, np_random, h))

FitDistribution(method, lib) ==
    /\ calls < MaxCalls
    /\ Called("fit_distribution", None, fit_distribution(session, np_random, method, lib))

CalculatePremium(pp) ==
    /\ calls < MaxCalls
    /\ Called("calculate_premium", pp, calculate_premium(session, np_random, pp))

RunSimulation(sp, entropy) ==
    /\ calls < MaxCalls
    /\ Called("run_simulation", sp, run_simulation(session, np_random, sp, entropy))

\* contract = ContractSpecification(...); sim.price_contract(contract, data, ...)
PriceContract(raw, h, pp, sp, method, lib, entropy) ==
    /\ calls < MaxCalls
    /\ IF post_init(raw) # ""
       THEN Called("ContractSpecification", raw, Raise(session, np_random, post_init(raw)))
       ELSE Called("price_contract",
                   [contract |-> raw, historical_data |-> h, distribution_method |-> method],
                   price_contract(session, np_random, raw, h, pp, sp, method, lib,
                                  entropy))

Init ==
    /\ session = NewSession
    /\ np_random \in {0}
    /\ last = [op |-> "__init__", arg |-> None, status |-> "ok", error |-> "",
               ret |-> None]
    /\ calls = 0
    /\ sims = <<>>

Next ==
    \/ \E raw \in RawContracts : SetContract(raw)
    \/ \E h \in Histories : SetHistoricalData(h)
    \/ \E m \in Methods, lib \in SessionLibs : FitDistribution(m, lib)
    \/ \E pp \in PricingParamsInputs : CalculatePremium(pp)
    \/ \E sp \in SimParamsInputs, e \in Entropy : RunSimulation(sp, e)
    \/ \E a \in PriceContractInputs, e \in Entropy :
            PriceContract(a.contract, a.historical_data, a.pricing_params,
                          a.sim_params, a.distribution_method, a.lib, e)

Spec == Init /\ [][Next]_vars

(***************************************************************************)
(* The arithmetic of Python's float (IEEE 754 binary64, round to nearest,  *)
(* ties to even) on the values the expected payout of an Empirical model   *)
(* goes through.  A natural number is its sequence of digits in base       *)
(* 2^LimbBits, the lowest first and the highest not 0; a float is          *)
(* s * m * 2^e with m of exactly MantissaBits bits, or m = <<>> for 0.0.   *)
(***************************************************************************)
MantissaBits == 53
LimbBits == 13
Base == 2 ^ LimbBits

RECURSIVE NatOf(_)
NatOf(n) == IF n = 0 THEN <<>> ELSE <<n % Base>> \o NatOf(n \div Base)

DigitAt(a, i) == IF i >= 1 /\ i <= Len(a) THEN a[i] ELSE 0

RECURSIVE StripHigh(_)
StripHigh(a) ==
    IF a = <<>> THEN a
    ELSE IF a[Len(a)] # 0 THEN a
    ELSE StripHigh(SubSeq(a, 1, Len(a) - 1))

BitLen(a) ==
    IF a = <<>> THEN 0
    ELSE LimbBits * (Len(a) - 1)
            + (CHOOSE k \in 1..LimbBits : 2 ^ (k - 1) <= a[Len(a)] /\ a[Len(a)] < 2 ^ k)

RECURSIVE AddFrom(_, _, _, _)
AddFrom(a, b, i, carry) ==
    IF i > Len(a) /\ i > Len(b)
    THEN (IF carry = 1 THEN <<1>> ELSE <<>>)
    ELSE LET t == DigitAt(a, i) + DigitAt(b, i) + carry
         IN  <<t % Base>> \o AddFrom(a, b, i + 1, t \div Base)

AddNat(a, b) == AddFrom(a, b, 1, 0)

\* a - b for a >= b.
RECURSIVE SubFrom(_, _, _, _)
SubFrom(a, b, i, borrow) ==
    IF i > Len(a) THEN <<>>
    ELSE LET t == DigitAt(a, i) - DigitAt(b, i) - borrow
         IN  <<t % Base>> \o SubFrom(a, b, i + 1, IF t < 0 THEN 1 ELSE 0)

SubNat(a, b) == StripHigh(SubFrom(a, b, 1, 0))

LessNat(a, b) ==
    \/ Len(a) < Len(b)
    \/ /\ Len(a) = Len(b)
       /\ \E i \in 1..Len(a) :
             /\ a[i] < b[i]
             /\ \A j \in (i + 1)..Len(a) : a[j] = b[j]

\* a * d + carry for a digit d.
RECURSIVE MulDigitFrom(_, _, _, _)
MulDigitFrom(a, d, i, carry) ==
    IF i > Len(a) THEN NatOf(carry)
    ELSE LET t == a[i] * d + carry
         IN  <<t % Base>> \o MulDigitFrom(a, d, i + 1, t \div Base)

MulDigit(a, d) == IF d = 0 THEN <<>> ELSE MulDigitFrom(a, d, 1, 0)

RECURSIVE MulNat(_, _)
MulNat(a, b) ==
    IF b = <<>> \/ a = <<>> THEN <<>>
    ELSE LET rest == MulNat(a, Tail(b))
         IN  AddNat(MulDigit(a, b[1]), IF rest = <<>> THEN rest ELSE <<0>> \o rest)

\* a * 2^k
ShiftLeft(a, k) ==
    IF a = <<>> THEN a
    ELSE [i \in 1..(k \div LimbBits) |-> 0] \o MulDigit(a, 2 ^ (k % LimbBits))

\* The quotient digits of a (from its digit i down) by the integer d, and
\* the remainder: long division.
RECURSIVE DivFrom(_, _, _, _)
DivFrom(a, d, i, rem) ==
    IF i = 0 THEN [q |-> <<>>, rem |-> rem]
    ELSE LET r == rem * Base + a[i]
             rest == DivFrom(a, d, i - 1, r % d)
         IN  [q |-> Append(rest.q, r \div d), rem |-> rest.rem]

\* a = q * 2^k + r with r < 2^k.
DivPow2(a, k) ==
    LET n == Min(k \div LimbBits, Len(a))
        high == DivFrom(SubSeq(a, n + 1, Len(a)), 2 ^ (k % LimbBits), Len(a) - n, 0)
    IN  [q |-> StripHigh(high.q),
         r |-> StripHigh(SubSeq(a, 1, n) \o <<high.rem>>)]

Zero == [s |-> 1, m |-> <<>>, e |-> 0]

\* The mantissa brought to MantissaBits bits, for a value of no more bits.
Canonical(sign, m, e) ==
    IF m = <<>> THEN Zero
    ELSE [s |-> sign, m |-> ShiftLeft(m, MantissaBits - BitLen(m)),
          e |-> e - (MantissaBits - BitLen(m))]

\* The float nearest to sign * m * 2^e (plus something below the last bit of
\* m when sticky), ties to even.
RoundToFloat(sign, m, e, sticky) ==
    IF BitLen(m) <= MantissaBits THEN Canonical(sign, m, e)
    ELSE LET k == BitLen(m) - MantissaBits
             d == DivPow2(m, k)
             half == ShiftLeft(<<1>>, k - 1)
             up == \/ LessNat(half, d.r)
                   \/ d.r = half /\ (sticky \/ d.q[1] % 2 = 1)
             kept == IF up THEN AddNat(d.q, <<1>>) ELSE d.q
         IN  IF BitLen(kept) > MantissaBits
             THEN Canonical(sign, DivPow2(kept, 1).q, e + k + 1)
             ELSE Canonical(sign, kept, e + k)

FromInt(n) == Canonical(IF n < 0 THEN -1 ELSE 1, NatOf(IF n < 0 THEN -n ELSE n), 0)

FNeg(x) == IF x.m = <<>> THEN x ELSE [x EXCEPT !.s = -x.s]

\* x + y
FAdd(x, y) ==
    IF x.m = <<>> THEN y
    ELSE IF y.m = <<>> THEN x
    ELSE LET e == Min(x.e, y.e)
             ax == ShiftLeft(x.m, x.e - e)
             ay == ShiftLeft(y.m, y.e - e)
         IN  IF x.s = y.s THEN RoundToFloat(x.s, AddNat(ax, ay), e, FALSE)
             ELSE IF ax = ay THEN Zero
             ELSE IF LessNat(ax, ay) THEN RoundToFloat(y.s, SubNat(ay, ax), e, FALSE)
             ELSE RoundToFloat(x.s, SubNat(ax, ay), e, FALSE)

\* x - y
FSub(x, y) == FAdd(x, FNeg(y))

\* d < 0, for a float.
FNegative(d) == d.m # <<>> /\ d.s = -1

\* x < y, for floats.
FLess(x, y) == FNegative(FSub(x, y))

\* x * y
FMul(x, y) ==
    IF x.m = <<>> \/ y.m = <<>> THEN Zero
    ELSE RoundToFloat(x.s * y.s, MulNat(x.m, y.m), x.e + y.e, FALSE)

\* a / b for integers a >= 0 and b > 0.
FDivInt(a, b) ==
    IF a = 0 THEN Zero
    ELSE LET k == MantissaBits + 2 + BitLen(NatOf(b))
             num == ShiftLeft(NatOf(a), k)
             d == DivFrom(num, b, Len(num), 0)
         IN  RoundToFloat(1, StripHigh(d.q), -k, d.rem # 0)

\* fit_empirical: probabilities = counts / self.n_samples, the parameters p_k.
empirical_parameters(data) ==
    [v \in Range(data) |-> FDivInt(Count(data, v), Len(data))]

\* DistributionFit.pmf of an Empirical model: self.parameters.get(f'p_{k}', 0.0)
pmf_empirical(parameters, k) == IF k \in DOMAIN parameters THEN parameters[k] ELSE Zero

\* The cumulative sum that stops one count short: for i in range(k).
RECURSIVE cdf_empirical_short(_, _)
cdf_empirical_short(parameters, k) ==
    IF k <= 0 THEN Zero
    ELSE FAdd(cdf_empirical_short(parameters, k - 1), pmf_empirical(parameters, k - 1))

\* DistributionFit.cdf of an Empirical model: cum_prob += ... for i in range(k + 1)
RECURSIVE cdf_empirical(_, _)
cdf_empirical(parameters, k) ==
    IF k < 0 THEN Zero
    ELSE FAdd(cdf_empirical(parameters, k - 1), pmf_empirical(parameters, k))

\* The loop paying the full amount on every day over the strike.
RECURSIVE expected_payout_loop_flat(_, _, _)
expected_payout_loop_flat(c, parameters, days) ==
    IF days <= c.strike_rainy_days THEN Zero
    ELSE FAdd(expected_payout_loop_flat(c, parameters, days - 1),
              FMul(FromInt(c.maximum_payout_days * c.payout_rate_per_day),
                   pmf_empirical(parameters, days)))

\* calculate_expected_payout: the loop over days, expected_payout += payout * prob
RECURSIVE expected_payout_loop(_, _, _)
expected_payout_loop(c, parameters, days) ==
    IF days <= c.strike_rainy_days THEN Zero
    ELSE LET excess_days == days - c.strike_rainy_days
             capped_excess == Min(excess_days, c.maximum_payout_days)
             payout == capped_excess * c.payout_rate_per_day
             prob == pmf_empirical(parameters, days)
         IN  FAdd(expected_payout_loop(c, parameters, days - 1),
                  FMul(FromInt(payout), prob))

\* calculate_expected_payout, the expected payout, in floats.
expected_payout_float(c, parameters) ==
    LET strike == c.strike_rainy_days
        max_days == c.maximum_payout_days
        prob_extreme_f == FSub(FromInt(1), cdf_empirical(parameters, strike + max_days))
        max_payout == max_days * c.payout_rate_per_day
    IN  FAdd(expected_payout_loop(c, parameters, strike + max_days),
             FMul(FromInt(max_payout), prob_extreme_f))

(***************************************************************************)
(* Simulators constructed and run side by side in one process, each call   *)
(* into numpy a step: monte_carlo.py run() for several objects at once.    *)
(***************************************************************************)
MaxSimulators == 2

MCContract == ExampleContract
MCHistory == ndarray(ExampleHistory)
MCDistribution == fit_empirical(DistributionFitter(ExampleHistory)).fit

MCParams ==
    {SimulationParameters(NSim, seed, method, DEFAULT_BOOTSTRAP_WEIGHT) :
        seed \in Seeds, method \in SimMethods}
    \cup {SimulationParameters(NSim, DEFAULT_RANDOM_SEED, "hybrid", 40)}

UsesGlobal(sim) == sim.obj.params.method \in {"bootstrap", "hybrid"}

\* The other simulators still between construction and result lose alone: the
\* process-wide generator has been written by someone else.
Disturb(ss, i) ==
    [j \in DOMAIN ss |->
        IF j # i /\ ss[j].pc # "done" THEN [ss[j] EXCEPT !.alone = FALSE] ELSE ss[j]]

\* simulator = MonteCarloSimulator(contract, distribution, historical_data, params)
Construct(params) ==
    /\ Len(sims) < MaxSimulators
    /\ LET simulator == MonteCarloSimulator(MCContract, MCDistribution, MCHistory, params)
           new == [obj |-> simulator.obj, pc |-> "constructed",
                   bootstrap_sample |-> <<>>, parametric_sample |-> <<>>,
                   entropy |-> 0, alone |-> TRUE, results |-> None]
       IN  /\ sims' = Append(Disturb(sims, 0), new)
           /\ np_random' = simulator.rng
    /\ UNCHANGED <<session, last, calls>>

\* simulate_rainy_days: np.random.choice(self.historical_data, ...)
DrawBootstrap(i) ==
    /\ sims[i].pc = "constructed"
    /\ UsesGlobal(sims[i])
    /\ LET mc == sims[i].obj
           n == IF mc.params.method = "bootstrap" THEN mc.params.n_simulations
                ELSE n_bootstrap_of(mc.params.n_simulations, mc.params.bootstrap_weight)
           b == Choice(np_random, mc.historical_data.a, n)
       IN  /\ sims' = [Disturb(sims, i) EXCEPT
                          ![i].bootstrap_sample = b.out,
                          ![i].pc = IF mc.params.method = "bootstrap" THEN "drawn"
                                    ELSE "bootstrapped"]
           /\ np_random' = b.rng
    /\ UNCHANGED <<session, last, calls>>

\* simulate_rainy_days: self.distribution.rvs(size=...)
DrawParametric(i, entropy) ==
    /\ \/ sims[i].pc = "constructed" /\ sims[i].obj.params.method = "parametric"
       \/ sims[i].pc = "bootstrapped"
    /\ LET mc == sims[i].obj
           n == mc.params.n_simulations - Len(sims[i].bootstrap_sample)
       IN  sims' = [sims EXCEPT
                       ![i].parametric_sample = rvs(mc.distribution, n, entropy),
                       ![i].entropy = entropy,
                       ![i].pc = IF mc.params.method = "parametric" THEN "drawn"
                                 ELSE "combined"]
    /\ UNCHANGED <<session, np_random, last, calls>>

\* simulate_rainy_days, hybrid: np.concatenate, then np.random.shuffle(simulated)
ShuffleCombined(i) ==
    /\ sims[i].pc = "combined"
    /\ LET simulated == sims[i].bootstrap_sample \o sims[i].parametric_sample
           sh == Shuffle(np_random, simulated, Len(simulated))
       IN  /\ sims' = [Disturb(sims, i) EXCEPT
                          ![i].bootstrap_sample = sh.out,
                          ![i].parametric_sample = <<>>,
                          ![i].pc = "drawn"]
           /\ np_random' = sh.rng
    /\ UNCHANGED <<session, last, calls>>

\* run(): the payouts and statistics of the sample drawn.
Finish(i) ==
    /\ sims[i].pc = "drawn"
    /\ sims' = [sims EXCEPT
                   ![i].results =
                       SimulationResults(sims[i].obj,
                           sims[i].bootstrap_sample \o sims[i].parametric_sample),
                   ![i].pc = "done"]
    /\ UNCHANGED <<session, np_random, last, calls>>

NextMC ==
    \/ \E params \in MCParams : Construct(params)
    \/ \E i \in DOMAIN sims : DrawBootstrap(i)
    \/ \E i \in DOMAIN sims, e \in Entropy : DrawParametric(i, e)
    \/ \E i \in DOMAIN sims : ShuffleCombined(i)
    \/ \E i \in DOMAIN sims : Finish(i)

SpecMC == Init /\ [][NextMC]_vars

\* The result simulator i gives when nothing else runs in the process.
ResultsAlone(sim) ==
    run(sim.obj, Seeded(sim.obj.params.random_seed), sim.entropy).results

\* A simulator that ran undisturbed has the result of run().
StepsAreRun ==
    \A i \in DOMAIN sims :
        (sims[i].pc = "done" /\ sims[i].alone) => sims[i].results = ResultsAlone(sims[i])

\* C5: two simulators with the same contract, distribution, historical data
\* and parameters (so the same seed), each run without anything else touching
\* the process-wide generator meanwhile, have the same simulated rainy-day
\* counts, payouts and statistics.
C5_SameSeedSameResults ==
    \A i, j \in DOMAIN sims :
        (/\ sims[i].pc = "done" /\ sims[j].pc = "done"
         /\ sims[i].alone /\ sims[j].alone
         /\ sims[i].obj = sims[j].obj)
            => sims[i].results = sims[j].results

\* C6: the result of every finished simulator is the one its own seed and
\* inputs give it, whatever other simulators were constructed or drew
\* meanwhile.
C6_OwnSeedOnly ==
    \A i \in DOMAIN sims :
        (/\ sims[i].pc = "done"
         /\ \A j \in DOMAIN sims \ {i} :
                sims[j].obj.params.random_seed # sims[i].obj.params.random_seed)
            => sims[i].results.simulated_rainy_days
                  = ResultsAlone(sims[i]).simulated_rainy_days

(***************************************************************************)
(* Automatic selection over samples on both sides of the parametric        *)
(* minimum and every answer of the fitting library.                        *)
(***************************************************************************)
MaxEvaluations == 1

SelectSizes == {5, 19, 20, 21}

SelectSamples ==
    {ExampleHistory} \cup {[i \in 1..n |-> 7 + ((3 * i) % 8)] : n \in SelectSizes}

\* fitter = DistributionFitter(data); fitter.select_best_distribution()
SelectBest(data, lib) ==
    /\ calls < MaxEvaluations
    /\ LET fitter == DistributionFitter(data)
           r == select_best_distribution(fitter, lib)
       IN  Called("select_best_distribution", [data |-> data, lib |-> lib],
                  IF fitter.error # "" THEN Raise(session, np_random, fitter.error)
                  ELSE IF r.error # "" THEN Raise(session, np_random, r.error)
                  ELSE Return(session, np_random, r.fit))

NextSelect == \E data \in SelectSamples, lib \in Libs : SelectBest(data, lib)

SpecSelect == Init /\ [][NextSelect]_vars

PayoutContracts ==
    { ExampleContract,
      ContractSpecification(17, 73, 10, 2025, 9, 333, 5, 30),
      ContractSpecification(17, 73, 10, 2025, 7, 40001, 12, 30),
      ContractSpecification(17, 73, 10, 2025, 3, 16129, 14, 30),
      ContractSpecification(17, 73, 10, 2025, 16, 14000, 5, 30) }

PayoutSampleSizes == 5..12

PayoutSamples ==
    {ExampleHistory}
        \cup {[i \in 1..n |-> 7 + ((o + 3 * i) % 8)] : n \in PayoutSampleSizes, o \in 0..3}

\* distribution = DistributionFitter(data).fit_empirical();
\* PricingEngine(contract, distribution).calculate_expected_payout()
CalculateExpectedPayout(contract, data) ==
    /\ calls < MaxEvaluations
    /\ post_init(contract) = ""
    /\ DistributionFitter(data).error = ""
    /\ Called("calculate_expected_payout", [contract |-> contract, data |-> data],
              Return(session, np_random,
                     [expected_payout |->
                         expected_payout_float(contract, empirical_parameters(data))]))

NextPayout ==
    \E contract \in PayoutContracts, data \in PayoutSamples :
        CalculateExpectedPayout(contract, data)

SpecPayout == Init /\ [][NextPayout]_vars

(***************************************************************************)
(* pricing.py: PricingEngine(contract, distribution, params)               *)
(* .calculate_premium(var_99) on its own, for a contract, a fitted         *)
(* distribution and parameters the caller constructs.                      *)
(***************************************************************************)
EngineContracts ==
    { ExampleContract,
      ContractSpecification(17, 73, 10, 2025, 11, 14000, 7, 45),
      ContractSpecification(17, 73, 10, 2025, 14, 14000, 7, 30),
      ContractSpecification(17, 73, 10, 2025, 9, 333, 5, 30),
      ContractSpecification(17, 73, 10, 2025, 11, 14000, 0, 30) }

EngineDistributions ==
    { fit_distribution_fn(data, method,
          [poisson |-> FitOutcome(FALSE, 1, 800), nb |-> FitOutcome(FALSE, 2, 800)]).fit :
        data \in {ExampleHistory, <<7, 8, 9, 10, 11>>},
        method \in {"empirical", "poisson"} }

EngineParams ==
    { DefaultPricingParameters,
      PricingParameters(20, 7, 25, 1000, 15),
      PricingParameters(20, 7, 25, 0, 15),
      PricingParameters(1, 1, 1, 0, 1),
      PricingParameters(0, 0, 0, 0, 0),
      PricingParameters(15, 5, 150, 1000, 12),
      PricingParameters(15, 5, 20, -1, 12) }

EngineVar99 == {None, [v |-> 0], [v |-> 13580]}

\* params = PricingParameters(...);
\* PricingEngine(contract, distribution, params).calculate_premium(var_99)
EngineCalculatePremium(contract, distribution, params, var_99) ==
    /\ calls < MaxEvaluations
    /\ post_init(contract) = ""
    /\ IF pricing_post_init(params) # ""
       THEN Called("PricingParameters", params,
                   Raise(session, np_random, pricing_post_init(params)))
       ELSE Called("PricingEngine.calculate_premium",
                   [contract |-> contract, distribution |-> distribution,
                    params |-> params, var_99 |-> var_99],
                   Return(session, np_random,
                          calculate_premium_fn(contract, distribution, params, var_99)))

NextPricing ==
    \E contract \in EngineContracts, distribution \in EngineDistributions,
       params \in EngineParams, var_99 \in EngineVar99 :
        EngineCalculatePremium(contract, distribution, params, var_99)

SpecPricing == Init /\ [][NextPricing]_vars

(***************************************************************************)
(* monte_carlo.py: one MonteCarloSimulator constructed and run, with       *)
(* nothing else in the process.                                            *)
(***************************************************************************)
RunContracts ==
    { ExampleContract,
      ContractSpecification(17, 73, 10, 2025, 9, 333, 3, 30),
      ContractSpecification(17, 73, 10, 2025, 13, 14000, 7, 30),
      ContractSpecification(17, 73, 10, 2025, 14, 14000, 7, 30) }

RunWeights == {0, 40, DEFAULT_BOOTSTRAP_WEIGHT, 100}

RunParams ==
    {SimulationParameters(NSim, seed, method, weight) :
        seed \in Seeds \cup {3, 12}, method \in SimMethods, weight \in RunWeights}

\* What the caller of run() gets: the results, or the exception.
run_returns(r) ==
    IF r.error # "" THEN Raise(session, r.rng, r.error)
    ELSE Return(session, r.rng, r.results)

\* MonteCarloSimulator(contract, distribution, historical_data, params).run()
RunSimulator(contract, params, entropy) ==
    /\ calls < MaxEvaluations
    /\ post_init(contract) = ""
    /\ Called("MonteCarloSimulator.run", [contract |-> contract, params |-> params],
              run_returns(run_of(MonteCarloSimulator(contract, MCDistribution, MCHistory,
                                                     params),
                                 entropy)))

NextRun ==
    \E contract \in RunContracts, params \in RunParams, entropy \in Entropy :
        RunSimulator(contract, params, entropy)

SpecRun == Init /\ [][NextRun]_vars

(***************************************************************************)
(* distributions.py: the chi-squared goodness-of-fit test of a fitted      *)
(* candidate.  scipy's pmf is a table of weights w[k + 1] / den, its       *)
(* chi2.cdf the 5% critical values.                                        *)
(***************************************************************************)
\* str(pmf_func) for the lambda a fit method passes, split at its punctuation:
\* "<function DistributionFitter.fit_poisson.<locals>.<lambda> at 0x...>".
repr_of_lambda(fit_method) ==
    <<"function", "DistributionFitter", fit_method, "locals", "lambda", "at">>

\* lambda k: stats.poisson.pmf(k, ...) or lambda k: stats.nbinom.pmf(k, ...)
pmf_lambda(fit_method, w) ==
    [repr |-> repr_of_lambda(fit_method), w |-> w, den |-> SumSeq(w)]

\* 'lambda' in str(pmf_func)
lambda_in_str(pmf_func) == "lambda" \in Range(pmf_func.repr)

\* The loop that combines bins until the expected frequency reaches 5.  The
\* expected frequencies are numerators over den.
RECURSIVE combine_bins(_, _, _, _, _, _, _)
combine_bins(observed, expected, den, i, current, observed_combined, expected_combined) ==
    IF i > Len(observed)
    THEN [current |-> current, observed_combined |-> observed_combined,
          expected_combined |-> expected_combined]
    ELSE LET current_obs == current.obs + observed[i]
             current_exp == current.exp + expected[i]
         IN  IF current_exp >= 5 * den
             THEN combine_bins(observed, expected, den, i + 1, [obs |-> 0, exp |-> 0],
                               Append(observed_combined, current_obs),
                               Append(expected_combined, current_exp))
             ELSE combine_bins(observed, expected, den, i + 1,
                               [obs |-> current_obs, exp |-> current_exp],
                               observed_combined, expected_combined)

\* "Add remaining" that leaves out what is left after the loop.
add_remaining_dropped(c) ==
    [observed_combined |-> c.observed_combined,
     expected_combined |-> c.expected_combined]

\* "Add remaining": what is left after the loop joins the last bin.
add_remaining(c) ==
    IF c.current.obs > 0
    THEN IF Len(c.observed_combined) > 0
         THEN LET last_bin == Len(c.observed_combined)
              IN  [observed_combined |->
                       [c.observed_combined EXCEPT ![last_bin] = @ + c.current.obs],
                   expected_combined |->
                       [c.expected_combined EXCEPT ![last_bin] = @ + c.current.exp]]
         ELSE [observed_combined |-> <<c.current.obs>>,
               expected_combined |-> <<c.current.exp>>]
    ELSE [observed_combined |-> c.observed_combined,
          expected_combined |-> c.expected_combined]

\* np.sum((observed - expected) ** 2 / expected), in thousandths.
RECURSIVE chi2_statistic(_, _, _)
chi2_statistic(observed_combined, expected_combined, den) ==
    IF observed_combined = <<>> THEN 0
    ELSE LET o == Head(observed_combined) * den
             e == Head(expected_combined)
         IN  ((o - e) * (o - e) * 1000) \div (e * den)
             + chi2_statistic(Tail(observed_combined), Tail(expected_combined), den)

\* The chi-squared statistic at which 1 - stats.chi2.cdf(x, df) is 0.05, in
\* thousandths, for df = 1, 2, ...
Chi2Critical == <<3841, 5991, 7815, 9488, 11070, 12592, 14067, 15507, 16919, 18307>>

\* "Degrees of freedom (bins - 1 - number of estimated parameters)"
degrees_of_freedom(pmf_func, bins) ==
    LET df == IF lambda_in_str(pmf_func) THEN bins - 1 - 1 ELSE bins - 1 - 2
    IN  Max(df, 1)

\* The statistic, the degrees of freedom and whether the p-value is over 0.05.
chi_squared_result(pmf_func, bins, n_bins) ==
    LET chi2_stat == chi2_statistic(bins.observed_combined, bins.expected_combined,
                                    pmf_func.den)
        df == degrees_of_freedom(pmf_func, n_bins)
    IN  [chi2_stat |-> chi2_stat, df |-> df, bins |-> n_bins,
         observed_combined |-> bins.observed_combined,
         expected_combined |-> bins.expected_combined,
         p_value_over_5_percent |-> chi2_stat < Chi2Critical[df]]

\* DistributionFitter._chi_squared_test
chi_squared_test(self, pmf_func) ==
    LET min_val == MinOf(Range(self.data))
        max_val == MaxOf(Range(self.data))
        observed == [i \in 1..(max_val - min_val + 1) |-> Count(self.data, min_val + i - 1)]
        expected == [i \in 1..(max_val - min_val + 1) |->
                        pmf_func.w[min_val + i] * self.n_samples]
        bins == add_remaining(combine_bins(observed, expected, pmf_func.den, 1,
                                           [obs |-> 0, exp |-> 0], <<>>, <<>>))
    IN  chi_squared_result(pmf_func, bins, Len(bins.observed_combined))

\* A sample with counts[k + 1] observations of k rainy days.
RECURSIVE FromCounts(_, _)
FromCounts(counts, k) ==
    IF k > Len(counts) THEN <<>>
    ELSE [i \in 1..counts[k] |-> k - 1] \o FromCounts(counts, k + 1)

GofSamples ==
    { FromCounts(<<2, 5, 8, 9, 7, 5, 3, 1>>, 1),
      FromCounts(<<0, 3, 6, 10, 10, 6, 3, 2>>, 1),
      FromCounts(<<1, 2, 4, 6, 4, 2, 1>>, 1),
      FromCounts(<<5, 5, 5, 5, 5, 5, 5, 5>>, 1),
      FromCounts(<<0, 0, 10, 10, 10, 10>>, 1),
      FromCounts(<<0, 0, 0, 1, 1, 1, 1, 1>>, 1) }

\* The pmf tables the candidates are tried with: a peak at mode, falling by
\* one per day to a floor of one, over 0..9 rainy days.
GofTables ==
    { [i \in 1..10 |-> 1 + Max(0, width - (IF i - 1 > mode THEN i - 1 - mode
                                           ELSE mode - (i - 1)))] :
        mode \in 2..5, width \in {3, 4, 6} }

GofFitMethods == {"fit_poisson", "fit_negative_binomial"}

\* fit_poisson / fit_negative_binomial, at self._chi_squared_test(lambda k: ...)
ChiSquaredTest(data, fit_method, w) ==
    /\ calls < MaxEvaluations
    /\ DistributionFitter(data).error = ""
    /\ Called("DistributionFitter._chi_squared_test",
              [data |-> data, fit_method |-> fit_method, pmf_func |-> pmf_lambda(fit_method, w)],
              Return(session, np_random,
                     chi_squared_test(DistributionFitter(data), pmf_lambda(fit_method, w))))

NextGof ==
    \E data \in GofSamples, fit_method \in GofFitMethods, w \in GofTables :
        ChiSquaredTest(data, fit_method, w)

SpecGof == Init /\ [][NextGof]_vars

(***************************************************************************)
(* distributions.py: an Empirical model fitted and asked for its pmf, cdf  *)
(* and mean, in floats.                                                    *)
(***************************************************************************)
\* DistributionFit.mean of an Empirical model: mean_val += k * prob over the
\* parameters in the order fit_empirical stored them, ascending.
RECURSIVE mean_empirical(_, _)
mean_empirical(parameters, keys) ==
    IF keys = {} THEN Zero
    ELSE LET k == MaxOf(keys)
         IN  FAdd(mean_empirical(parameters, keys \ {k}), FMul(FromInt(k), parameters[k]))

\* What the caller reads off the fitted model: the parameters, cdf(k) for k
\* from 0 to two past the largest observation, and mean().
empirical_queries(parameters, top) ==
    [parameters |-> parameters,
     cdf |-> [k \in 0..top |-> cdf_empirical(parameters, k)],
     mean |-> mean_empirical(parameters, DOMAIN parameters)]

EmpiricalSamples ==
    PayoutSamples \cup [1..5 -> {7, 9, 12}] \cup {<<0, 3, 3, 5, 5, 5, 2>>}

\* fit = DistributionFitter(data).fit_empirical(); fit.cdf(k); fit.mean()
FitEmpirical(data) ==
    /\ calls < MaxEvaluations
    /\ DistributionFitter(data).error = ""
    /\ Called("fit_empirical", [data |-> data],
              Return(session, np_random,
                     empirical_queries(empirical_parameters(data),
                                       MaxOf(Range(data)) + 2)))

NextEmpirical == \E data \in EmpiricalSamples : FitEmpirical(data)

SpecEmpirical == Init /\ [][NextEmpirical]_vars

(***************************************************************************)
(* monte_carlo.py: one run with the payouts and the risk metrics in        *)
(* floats, for payout rates given in hundredths of a currency unit.        *)
(***************************************************************************)
\* x / b for a float x and an integer b > 0.
FDivBy(x, b) ==
    IF x.m = <<>> THEN Zero
    ELSE LET k == MantissaBits + 2 + BitLen(NatOf(b))
             num == ShiftLeft(x.m, k)
             d == DivFrom(num, b, Len(num), 0)
         IN  RoundToFloat(x.s, StripHigh(d.q), x.e - k, d.rem # 0)

\* calculate_payout: capped_excess * rate, the rate a float.
calculate_payout_float(contract, rate, rainy_days) ==
    [i \in 1..Len(rainy_days) |->
        LET excess_days == Max(rainy_days[i] - contract.strike_rainy_days, 0)
            capped_excess == Min(excess_days, contract.maximum_payout_days)
        IN  FMul(FromInt(capped_excess), rate)]

\* numpy's _lerp(a, b, t): a + (b - a) * t, taken from b for t >= 0.5, and a
\* where a = b.
lerp(a, b, t) ==
    LET diff_b_a == FSub(b, a)
        half == FDivInt(1, 2)
    IN  IF b = a THEN a
        ELSE IF FLess(t, half) THEN FAdd(a, FMul(diff_b_a, t))
        ELSE FSub(b, FMul(diff_b_a, FSub(FromInt(1), t)))

\* np.percentile on the ordered sample, with linear interpolation: the
\* virtual index (n - 1) * (q / 100), its floor and the weight gamma of the
\* next value.
percentile_sorted(sorted, q) ==
    LET previous_index == ((Len(sorted) - 1) * q) \div 100
        next_index == Min(previous_index + 1, Len(sorted) - 1)
    IN  lerp(sorted[previous_index + 1], sorted[next_index + 1],
             FSub(FMul(FromInt(Len(sorted) - 1), FDivInt(q, 100)),
                  FromInt(previous_index)))

\* The sum numpy's add.reduce makes of fewer than 8 values: one after the
\* other.
RECURSIVE pairwise_sum(_, _)
pairwise_sum(a, n) ==
    IF n = 0 THEN Zero ELSE FAdd(pairwise_sum(a, n - 1), a[n])

\* The sum in the place of the mean.
np_mean_undivided(a) == pairwise_sum(a, Len(a))

\* np.mean(a) for a non-empty a.
np_mean(a) == FDivBy(pairwise_sum(a, Len(a)), Len(a))

\* cvar = np.mean(excess_losses) if len(excess_losses) > 0 else var
cvar_of(excess_losses, var) ==
    [var |-> var,
     cvar |-> IF Len(excess_losses) > 0 THEN np_mean(excess_losses) ELSE var]

\* excess_losses = payouts[payouts >= var]
excess_losses_of(payouts, var) ==
    cvar_of(SelectSeq(payouts, LAMBDA x : ~FLess(x, var)), var)

\* One confidence level of calculate_var_cvar, in floats; sorted is the
\* payouts in the order np.percentile puts them in.
var_cvar_float(payouts, sorted, q) ==
    excess_losses_of(payouts, percentile_sorted(sorted, q))

\* The SimulationResults of run, from the payouts, the payouts in order and
\* the risk metrics of the three levels.
results_float(simulated_rainy_days, simulated_payouts, sorted, r90, r95, r99) ==
    [simulated_rainy_days |-> simulated_rainy_days,
     simulated_payouts |-> simulated_payouts,
     min_payout |-> sorted[1],
     max_payout |-> sorted[Len(sorted)],
     var_90 |-> r90.var, var_95 |-> r95.var, var_99 |-> r99.var,
     cvar_90 |-> r90.cvar, cvar_95 |-> r95.cvar, cvar_99 |-> r99.cvar]

\* calculate_var_cvar on the payouts and their order.
risk_metrics_float(simulated_rainy_days, simulated_payouts, sorted) ==
    results_float(simulated_rainy_days, simulated_payouts, sorted,
                  var_cvar_float(simulated_payouts, sorted, 90),
                  var_cvar_float(simulated_payouts, sorted, 95),
                  var_cvar_float(simulated_payouts, sorted, 99))

\* The statistics of run: the extremes and the risk metrics of the payouts.
statistics_float(simulated_rainy_days, simulated_payouts) ==
    risk_metrics_float(simulated_rainy_days, simulated_payouts,
                       SortSeq(simulated_payouts, FLess))

\* MonteCarloSimulator.run with float payouts: the sample, its payouts, their
\* extremes and the risk metrics.
SimulationResultsFloat(contract, rate, simulated_rainy_days) ==
    statistics_float(simulated_rainy_days,
                     calculate_payout_float(contract, rate, simulated_rainy_days))

\* Payout rates in hundredths of a currency unit: 14000, 333.33, 0.10.
FractionalRates == {1400000, 33333, 10}

FractionalParams ==
    {SimulationParameters(NSim, seed, method, DEFAULT_BOOTSTRAP_WEIGHT) :
        seed \in Seeds \cup {3}, method \in SimMethods}

\* contract with payout_rate_per_day = rate_hundredths / 100, which
\* __post_init__ accepts as it accepts contract.
with_rate(contract, rate_hundredths) ==
    [contract EXCEPT !.payout_rate_per_day = FDivInt(rate_hundredths, 100)]

\* What the caller of run() gets from the sample s of simulate_rainy_days.
run_fractional_returns(contract, rate_hundredths, s) ==
    IF s.error # "" THEN Raise(session, s.rng, s.error)
    ELSE Return(session, s.rng,
                SimulationResultsFloat(contract, FDivInt(rate_hundredths, 100), s.out))

\* MonteCarloSimulator(with_rate(contract, rate_hundredths), ...).run()
RunFractional(contract, rate_hundredths, params, entropy) ==
    /\ calls < MaxEvaluations
    /\ post_init(contract) = ""
    /\ rate_hundredths > 0
    /\ contract.maximum_payout_days * rate_hundredths <= 100 * MAX_NOTIONAL_PER_CONTRACT
    /\ Called("MonteCarloSimulator.run, float payouts",
              [contract |-> with_rate(contract, rate_hundredths),
               rate_hundredths |-> rate_hundredths, params |-> params],
              run_fractional_returns(
                  contract, rate_hundredths,
                  simulate_rainy_days(
                      MonteCarloSimulator(contract, MCDistribution, MCHistory, params).obj,
                      Seeded(params.random_seed), entropy)))

FractionalContracts ==
    { ExampleContract,
      ContractSpecification(17, 73, 10, 2025, 9, 333, 3, 30),
      ContractSpecification(17, 73, 10, 2025, 7, 14000, 1, 30) }

NextFractional ==
    \E contract \in FractionalContracts, rate_hundredths \in FractionalRates,
       params \in FractionalParams, entropy \in Entropy :
        RunFractional(contract, rate_hundredths, params, entropy)

SpecFractional == Init /\ [][NextFractional]_vars

(***************************************************************************)
(* Properties of the session.                                              *)
(***************************************************************************)
IsCall == calls' = calls + 1

\* The step a precedence error names.
NamedStep(msg) ==
    IF msg = ERR_NO_CONTRACT THEN "set_contract"
    ELSE IF msg = ERR_NO_HISTORY THEN "set_historical_data"
    ELSE IF msg = ERR_NO_DISTRIBUTION THEN "fit_distribution"
    ELSE ""

\* The step before op in the chain, and whether the session has completed it.
Preceding(op) ==
    IF op = "set_historical_data" THEN "set_contract"
    ELSE IF op = "fit_distribution" THEN "set_historical_data"
    ELSE IF op = "calculate_premium" THEN "fit_distribution"
    ELSE IF op = "run_simulation" THEN "calculate_premium"
    ELSE ""

Completed(s, step) ==
    IF step = "set_contract" THEN s.contract # None
    ELSE IF step = "set_historical_data" THEN s.historical_data # None
    ELSE IF step = "fit_distribution" THEN s.distribution # None
    ELSE IF step = "calculate_premium" THEN s.pricing_results # None
    ELSE TRUE

C2_PublishedPricingIsPass2 ==
    (last.op = "price_contract" /\ last.ret.locals.simulation # None)
        => /\ last.ret.locals.pricing.capital_required
                = (CAPITAL_VAR_MULTIPLIER_X2 * last.ret.locals.simulation.var_99) \div 2
           /\ last.ret.locals.pricing = session.pricing_results

Sections ==
    {"contract", "historical_analysis", "distribution", "pricing", "simulation",
     "profitability", "metadata"}

ValidSample(a) == Len(a) >= 5 /\ \A i \in 1..Len(a) : a[i] >= 0

\* C3: for a contract validation accepts and a sample of at least 5
\* non-negative counts (and a known fitting method), price_contract returns a
\* result with all seven sections, the contract section echoing the contract.
C3_ReturnsFullResult ==
    (/\ last.op = "price_contract"
     /\ validate_contract(last.arg.contract).is_valid
     /\ ValidSample(last.arg.historical_data)
     /\ last.arg.distribution_method \in {"auto", "poisson", "negative_binomial",
                                          "empirical"})
        => /\ last.status = "ok"
           /\ DOMAIN last.ret.value = Sections
           /\ last.ret.value.contract.latitude = last.arg.contract.location_lat
           /\ last.ret.value.contract.longitude = last.arg.contract.location_lon

\* The errors each step of price_contract raises.
ErrorsOf(step) ==
    IF step = "set_contract"
    THEN {"Invalid contract: Strike exceeds days in month",
          "Invalid contract: Strike + max payout days exceeds days in month"}
    ELSE IF step = "set_historical_data" THEN {ERR_EMPTY_MIN}
    ELSE IF step = "fit_distribution"
    THEN {"Need at least 5 data points for distribution fitting",
          "Data contains negative values", "Unknown method: kernel",
          "Poisson fitting failed", "Negative Binomial fitting failed"}
    ELSE IF step = "run_simulation" THEN {"a must be non-empty"}
    ELSE IF step = "compile_results" THEN {ERR_NO_LONGITUDE}
    ELSE {}

ChainSteps ==
    <<"set_contract", "set_historical_data", "fit_distribution", "calculate_premium",
      "run_simulation", "compile_results">>

DaysOfMonth(month, year) ==
    IF month = 2
    THEN (IF year % 400 = 0 \/ (year % 4 = 0 /\ year % 100 # 0) THEN 29 ELSE 28)
    ELSE <<31, 0, 31, 30, 31, 30, 31, 31, 30, 31, 30, 31>>[month]

FitsMonth(c) ==
    c.strike_rainy_days + c.maximum_payout_days
        <= DaysOfMonth(c.observation_month, c.observation_year)

ContractInvariants(c) ==
    /\ c.observation_month \in 1..12
    /\ c.strike_rainy_days >= 0
    /\ c.maximum_payout_days >= 0
    /\ c.payout_rate_per_day > 0
    /\ FitsMonth(c)
    /\ c.maximum_payout_days * c.payout_rate_per_day <= 500000

\* C7: the contract the session holds satisfies every contract invariant, and
\* set_contract raises for a contract that does not fit its month.
C7_ContractInvariants ==
    /\ session.contract # None => ContractInvariants(session.contract)
    /\ (last.op = "set_contract" /\ ~FitsMonth(last.arg)) => last.status = "error"
    /\ (last.op = "price_contract" /\ ~FitsMonth(last.arg.contract))
          => (last.status = "error" /\ last.ret.trace = <<"set_contract">>)

C7_Witness ==
    /\ last.op = "set_contract"
    /\ ~FitsMonth(last.arg)
    /\ last.status = "error"
    /\ session.contract # None

\* C8: fit_distribution raises for a stored sample of fewer than 5 observations
\* or with a negative count, whatever the method, and the distribution the
\* session holds was fitted to at least 5 non-negative counts.
C8_FitRejectsBadSample ==
    /\ (last.op = "fit_distribution" /\ session.historical_data # None
           /\ ~ValidSample(session.historical_data.a))
          => last.status = "error"
    /\ session.distribution # None
          => /\ ValidSample(session.distribution.fitted_from)
             /\ session.distribution.distribution_type = "empirical"
                   => session.distribution.den >= 5

C8_Witness ==
    /\ last.op = "fit_distribution"
    /\ last.status = "error"
    /\ session.historical_data # None
    /\ ~ValidSample(session.historical_data.a)
    /\ session.distribution # None

\* The sum of f[x] over the set S.
RECURSIVE SumOver(_, _)
SumOver(f, S) ==
    IF S = {} THEN 0
    ELSE LET x == CHOOSE y \in S : TRUE IN f[x] + SumOver(f, S \ {x})

\* The formula of the expected payout, as a numerator over d.den.
ExpectedPayoutFormula(c, d) ==
    LET s == c.strike_rainy_days
        m == c.maximum_payout_days
        paying == (s + 1)..(s + m)
        upto == {k \in DOMAIN d.w : k <= s + m}
    IN  SumOver([k \in paying |-> pmf(d, k) * (k - s) * c.payout_rate_per_day], paying)
            + (d.den - SumOver(d.w, upto)) * m * c.payout_rate_per_day

\* The expectation of the payoff mapping over the whole pmf of an Empirical
\* model, as a numerator over d.den.
PayoffExpectation(c, d) ==
    SumOver([k \in DOMAIN d.w |-> d.w[k] * payout_of(c, k)], DOMAIN d.w)

\* In the arithmetic of whole numbers over d.den the expected payout
\* calculate_premium returns is the formula's value, for an Empirical model the
\* expectation of the payoff mapping over the empirical pmf, and 5600 for the
\* example history and contract.
ExpectedPayoutInExactArithmetic ==
    (last.op = "calculate_premium" /\ last.status = "ok") =>
        LET c == session.contract
            d == session.distribution
        IN  /\ last.ret.expected_payout = ExpectedPayoutFormula(c, d) \div d.den
            /\ d.distribution_type = "empirical"
                  => ExpectedPayoutFormula(c, d) = PayoffExpectation(c, d)
            /\ (d.distribution_type = "empirical" /\ d.fitted_from = ExampleHistory
                   /\ c = ExampleContract)
                  => /\ last.ret.expected_payout = 5600
                     /\ ExpectedPayoutFormula(c, d) = 5600 * d.den

\* The float x is the rational num / den.
FloatIsRatio(x, num, den) ==
    IF num = 0 THEN x.m = <<>>
    ELSE /\ x.m # <<>>
         /\ x.s = 1
         /\ IF x.e >= 0
            THEN MulNat(ShiftLeft(x.m, x.e), NatOf(den)) = NatOf(num)
            ELSE MulNat(x.m, NatOf(den)) = ShiftLeft(NatOf(num), -x.e)

\* C10: the expected payout calculate_expected_payout returns for an Empirical
\* model is the expectation of the payoff mapping over the empirical pmf, the
\* exact rational value; for history [7,10,9,12,8,14,9,11,8,10], strike 11,
\* maximum_payout_days 7 and rate 14000 it is exactly 5600.
C10_ExactExpectedPayout ==
    last.op = "calculate_expected_payout" =>
        LET c == last.arg.contract
            d == fit_empirical(DistributionFitter(last.arg.data)).fit
        IN  /\ FloatIsRatio(last.ret.expected_payout, PayoffExpectation(c, d), d.den)
            /\ (c = ExampleContract /\ last.arg.data = ExampleHistory)
                  => last.ret.expected_payout = FromInt(5600)

\* The contract c with another strike.
AtStrike(c, strike) == [c EXCEPT !.strike_rainy_days = strike]

\* The sample has an observation in lo..hi.
MassIn(data, lo, hi) == \E i \in 1..Len(data) : data[i] \in lo..hi

C12_AdditiveWaterfall ==
    last.op = "PricingEngine.calculate_premium" =>
        LET r == last.ret
            p == last.arg.params
        IN  /\ r.technical_premium
                  = r.pure_premium + r.volatility_charge + r.basis_risk_charge
            /\ r.gross_premium
                  = r.technical_premium + r.capital_charge + r.operational_cost
                      + r.profit_amount
            /\ r.pure_premium = r.expected_payout
            /\ r.basis_risk_charge = (p.basis_risk_loading * r.pure_premium) \div 100
            /\ r.profit_amount
                  = (p.profit_margin
                       * (r.technical_premium + r.capital_charge + r.operational_cost))
                      \div 100

C12_Witness ==
    /\ last.op = "PricingEngine.calculate_premium"
    /\ last.ret.pure_premium > 0
    /\ last.ret.volatility_charge > 0
    /\ last.ret.basis_risk_charge > 0
    /\ last.ret.capital_charge > 0
    /\ last.ret.operational_cost > 0
    /\ last.ret.profit_amount > 0

\* The four loadings of the parameters are positive.
LoadingsPositive(p) ==
    /\ p.volatility_loading > 0
    /\ p.basis_risk_loading > 0
    /\ p.cost_of_capital > 0
    /\ p.profit_margin > 0

\* C13, as stated: whenever the volatility loading, the basis-risk loading,
\* the cost of capital and the profit margin are all positive (the operational
\* cost any value >= 0), the gross premium is strictly greater than the
\* expected payout.
C13_GrossExceedsExpected ==
    (last.op = "PricingEngine.calculate_premium" /\ LoadingsPositive(last.arg.params))
        => last.ret.gross_premium > last.ret.expected_payout

\* C13, amended: with the four loadings positive (at least one hundredth) the
\* gross premium is strictly greater than the expected payout whenever the
\* expected payout is positive or the operational cost is at least 1.
C13_Amended ==
    (/\ last.op = "PricingEngine.calculate_premium"
     /\ LoadingsPositive(last.arg.params)
     /\ (last.ret.expected_payout > 0 \/ last.arg.params.operational_cost > 0))
        => last.ret.gross_premium > last.ret.expected_payout

C13_Witness ==
    /\ last.op = "PricingEngine.calculate_premium"
    /\ LoadingsPositive(last.arg.params)
    /\ last.arg.params.operational_cost = 0
    /\ last.ret.expected_payout > 0
    /\ last.ret.gross_premium > last.ret.expected_payout

\* The call ran run_simulation to its end on a session that had a premium.
SimulatedAfterPremium ==
    \/ /\ last'.op = "run_simulation"
       /\ last'.status = "ok"
       /\ session.pricing_results # None
    \/ /\ last'.op = "price_contract"
       /\ Len(last'.ret.trace) = Len(ChainSteps)

\* C14: capital_required is non-negative in the premium calculate_premium
\* returns (capital multiplier x 2.33 x the standard deviation of the payout)
\* and in the premium the session holds, and when run_simulation has run after
\* calculate_premium the session's premium has capital_required = capital
\* multiplier x the var_99 of the session's simulation result.
C14_CapitalRequired ==
    [][IsCall =>
        /\ (last'.op = "calculate_premium" /\ last'.status = "ok")
              => /\ last'.ret.capital_required
                       = (CAPITAL_VAR_MULTIPLIER_X2 * 233 * last'.ret.std_payout) \div 200
                 /\ last'.ret.capital_required >= 0
        /\ session'.pricing_results # None
              => session'.pricing_results.capital_required >= 0
        /\ SimulatedAfterPremium
              => /\ session'.simulation_results.var_99 >= 0
                 /\ session'.pricing_results.capital_required
                       = (CAPITAL_VAR_MULTIPLIER_X2 * session'.simulation_results.var_99)
                             \div 2
      ]_vars

C14_Witness ==
    /\ last.op = "run_simulation"
    /\ last.status = "ok"
    /\ session.pricing_results # None
    /\ last.ret.var_99 > 0
    /\ session.pricing_results.capital_required
           = (CAPITAL_VAR_MULTIPLIER_X2 * last.ret.var_99) \div 2
    /\ session.pricing_results.capital_required
           # (CAPITAL_VAR_MULTIPLIER_X2 * 233 * session.pricing_results.std_payout) \div 200

\* C15: capital_charge = cost_of_capital x capital_required x
\* (settlement_days + 30) / 365 with settlement_days the settlement lag of the
\* contract being priced.
C15_CapitalChargeBySettlement ==
    last.op = "PricingEngine.calculate_premium" =>
        last.ret.capital_charge
            = (last.arg.params.cost_of_capital * last.ret.capital_required
                 * (last.arg.contract.settlement_days + 30)) \div (100 * 365)

\* A run of the simulator that returned its results.
RunReturned == last.op = "MonteCarloSimulator.run" /\ last.status = "ok"

\* C16: every simulated payout is min(max(rainy_days - strike, 0),
\* maximum_payout_days) * payout_rate_per_day: zero up to the strike, never
\* smaller for more rainy days, and maximum_payout_days * payout_rate_per_day
\* from strike + maximum_payout_days on.
C16_PayoutMapping ==
    RunReturned =>
        LET c == last.arg.contract
            d == last.ret.simulated_rainy_days
            p == last.ret.simulated_payouts
            over(i) == IF d[i] > c.strike_rainy_days THEN d[i] - c.strike_rainy_days ELSE 0
            paid(i) == IF over(i) < c.maximum_payout_days THEN over(i)
                       ELSE c.maximum_payout_days
        IN  /\ Len(p) = Len(d)
            /\ \A i \in 1..Len(d) :
                   /\ p[i] = paid(i) * c.payout_rate_per_day
                   /\ d[i] <= c.strike_rainy_days => p[i] = 0
                   /\ d[i] >= c.strike_rainy_days + c.maximum_payout_days
                          => p[i] = c.maximum_payout_days * c.payout_rate_per_day
            /\ \A i, j \in 1..Len(d) : d[i] <= d[j] => p[i] <= p[j]

\* A run with a count at or under the strike, one inside the paying range and
\* one beyond strike + maximum_payout_days.
C16_Witness ==
    /\ RunReturned
    /\ LET c == last.arg.contract
           d == last.ret.simulated_rainy_days
       IN  \E i, j, k \in 1..Len(d) :
               /\ d[i] <= c.strike_rainy_days
               /\ d[j] > c.strike_rainy_days
               /\ d[j] < c.strike_rainy_days + c.maximum_payout_days
               /\ d[k] > c.strike_rainy_days + c.maximum_payout_days

\* round(x / 100), halves to the even neighbour as Python's round does.
RoundHundredths(x) ==
    LET q == x \div 100
        r == x % 100
    IN  IF r * 2 < 100 THEN q
        ELSE IF r * 2 > 100 THEN q + 1
        ELSE IF q % 2 = 0 THEN q ELSE q + 1

\* C17: a hybrid simulation draws round(N * bootstrap_weight) values by
\* bootstrap, the other N - n_bootstrap from the fitted distribution, and
\* returns N values in all.
C17_HybridSplit ==
    \A i \in DOMAIN sims :
        LET params == sims[i].obj.params
            n_bootstrap == RoundHundredths(params.n_simulations * params.bootstrap_weight)
        IN  params.method = "hybrid" =>
                /\ sims[i].pc \in {"bootstrapped", "combined"}
                       => Len(sims[i].bootstrap_sample) = n_bootstrap
                /\ sims[i].pc = "combined"
                       => Len(sims[i].parametric_sample) = params.n_simulations - n_bootstrap
                /\ sims[i].pc = "done"
                       => Len(sims[i].results.simulated_rainy_days) = params.n_simulations

\* The confidence levels of calculate_var_cvar with the VaR and CVaR a result
\* holds for each.
RiskMetrics(results) ==
    { [q |-> 90, var |-> results.var_90, cvar |-> results.cvar_90],
      [q |-> 95, var |-> results.var_95, cvar |-> results.cvar_95],
      [q |-> 99, var |-> results.var_99, cvar |-> results.cvar_99] }

\* The samples at or over a threshold.
TailOf(payouts, var) == {i \in 1..Len(payouts) : payouts[i] >= var}

\* CVaR is the mean of the payouts at or over the VaR, for every level.
CvarIsTailMean(results) ==
    \A m \in RiskMetrics(results) :
        LET tail == TailOf(results.simulated_payouts, m.var)
        IN  tail # {} =>
                m.cvar = SumOver(results.simulated_payouts, tail) \div Cardinality(tail)

\* More than half of the sample pays nothing.
PointMassAtZero(payouts) ==
    Cardinality({i \in 1..Len(payouts) : payouts[i] = 0}) * 2 > Len(payouts)

\* Every payout sample of NSim values the example contract can pay.
TailSamples ==
    [1..NSim -> {payout_of(ExampleContract, d) : d \in 0..SupportMax}]

\* C18, as stated: CVaR(q) is the mean of the sampled payouts at or over
\* VaR(q), and some sample with a large point mass at zero has no payout at
\* or over VaR(q), so that its CVaR(q) is set to VaR(q).
C18_FallbackTaken ==
    RunReturned =>
        /\ CvarIsTailMean(last.ret)
        /\ \E payouts \in TailSamples, q \in {90, 95, 99} :
               /\ PointMassAtZero(payouts)
               /\ TailOf(payouts, var_cvar(payouts, q).var) = {}
               /\ var_cvar(payouts, q).cvar = var_cvar(payouts, q).var

\* C18, amended: CVaR(q) is the mean of the sampled payouts at or over
\* VaR(q); VaR(q) never exceeds the largest sampled payout, so at least one
\* payout is at or over it in every sample, also one with a large point mass
\* at zero.
C18_Amended ==
    RunReturned =>
        /\ CvarIsTailMean(last.ret)
        /\ \A m \in RiskMetrics(last.ret) :
               /\ m.var <= last.ret.max_payout
               /\ TailOf(last.ret.simulated_payouts, m.var) # {}

\* A run whose payouts are mostly zero and whose 99% VaR is above zero.
C18_Witness ==
    /\ RunReturned
    /\ PointMassAtZero(last.ret.simulated_payouts)
    /\ last.ret.var_99 > 0
    /\ last.ret.cvar_99 > last.ret.var_99

\* C19: the trigger_frequency of a simulation result is the number of
\* simulated payouts strictly greater than zero over the number of
\* simulations.
C19_TriggerFrequency ==
    RunReturned =>
        /\ last.ret.trigger_frequency.den = last.arg.params.n_simulations
        /\ last.ret.trigger_frequency.num =
               Len(SelectSeq(last.ret.simulated_payouts, LAMBDA x : x > 0))
        /\ last.ret.trigger_frequency.num =
               Len(SelectSeq(last.ret.simulated_rainy_days,
                             LAMBDA d : d > last.arg.contract.strike_rainy_days))

\* A run in which some scenarios pay and some pay nothing.
C19_Witness ==
    /\ RunReturned
    /\ last.ret.trigger_frequency.num > 0
    /\ last.ret.trigger_frequency.num < last.ret.trigger_frequency.den
    /\ \E i \in 1..Len(last.ret.simulated_payouts) : last.ret.simulated_payouts[i] = 0

\* C20: the chi-squared test uses max(1, merged bins - 1 - k) degrees of
\* freedom, with k = 1 for the Poisson candidate and k = 2 for the
\* Negative-Binomial candidate.
C20_DegreesOfFreedom ==
    last.op = "DistributionFitter._chi_squared_test" =>
        LET k == IF last.arg.fit_method = "fit_poisson" THEN 1 ELSE 2
        IN  last.ret.df = Max(1, last.ret.bins - 1 - k)

\* A chi-squared test that returned.
GofReturned == last.op = "DistributionFitter._chi_squared_test" /\ last.status = "ok"

\* The expected frequency of k rainy days in the test that returned, as a
\* numerator over pmf_func.den, and the total from the smallest observation
\* to the largest.
ExpectedAt(k) == last.arg.pmf_func.w[k + 1] * Len(last.arg.data)

RECURSIVE ExpectedFromTo(_, _)
ExpectedFromTo(lo, hi) ==
    IF lo > hi THEN 0 ELSE ExpectedAt(lo) + ExpectedFromTo(lo + 1, hi)

TotalExpected ==
    ExpectedFromTo(MinOf(Range(last.arg.data)), MaxOf(Range(last.arg.data)))

\* Merging loses nothing: the merged observed counts sum to the sample size
\* and the merged expected counts to the total expected count.
MergingLosesNothing ==
    /\ Len(last.ret.observed_combined) = Len(last.ret.expected_combined)
    /\ SumSeq(last.ret.observed_combined) = Len(last.arg.data)
    /\ SumSeq(last.ret.expected_combined) = TotalExpected

AllBinsAtLeast5 ==
    \A i \in 1..Len(last.ret.expected_combined) :
        last.ret.expected_combined[i] >= 5 * last.arg.pmf_func.den

\* C21, as stated: after merging every bin has an expected count of at least
\* 5, and merging loses nothing.
C21_EveryBinAtLeast5 ==
    GofReturned => (AllBinsAtLeast5 /\ MergingLosesNothing)

\* C21, amended: merging loses nothing; every merged bin has an expected
\* count of at least 5 when the total expected count is at least 5, and
\* otherwise there is exactly one bin, which holds everything.
C21_Amended ==
    GofReturned =>
        /\ MergingLosesNothing
        /\ TotalExpected >= 5 * last.arg.pmf_func.den => AllBinsAtLeast5
        /\ TotalExpected < 5 * last.arg.pmf_func.den => Len(last.ret.expected_combined) = 1

\* A test in which bins were merged, an under-5 remainder joined the last bin
\* and at least two bins are left.
C21_Witness ==
    /\ GofReturned
    /\ Len(last.ret.expected_combined) >= 2
    /\ LET hi == MaxOf(Range(last.arg.data))
       IN  /\ ExpectedAt(hi) < 5 * last.arg.pmf_func.den
           /\ last.ret.expected_combined[Len(last.ret.expected_combined)] - ExpectedAt(hi)
                  >= 5 * last.arg.pmf_func.den

\* A premium the pricing engine returned.
EngineReturned == last.op = "PricingEngine.calculate_premium" /\ last.status = "ok"

\* The results dictionary price_contract compiles for the premium returned.
CompiledFromLast ==
    compile_results(last.arg.contract, None, last.arg.distribution, last.ret, None, "auto")

EmpiricalFitted == last.op = "fit_empirical" /\ last.status = "ok"

\* The pmf values over the distinct observed counts, added in floats.
RECURSIVE PmfSum(_, _)
PmfSum(parameters, keys) ==
    IF keys = {} THEN Zero
    ELSE LET k == MaxOf(keys)
         IN  FAdd(PmfSum(parameters, keys \ {k}), parameters[k])

\* x and y differ by no more than 2^-20, which is under 1e-6.
Within1e6(x, y) ==
    /\ ~FLess(Canonical(1, <<1>>, -20), FSub(x, y))
    /\ ~FLess(Canonical(1, <<1>>, -20), FSub(y, x))

\* x and y differ by no more than 2^-20 of y, for y >= 0.
WithinRelative1e6(x, y) ==
    /\ ~FLess(FMul(Canonical(1, <<1>>, -20), y), FSub(x, y))
    /\ ~FLess(FMul(Canonical(1, <<1>>, -20), y), FSub(y, x))

\* cdf is non-decreasing and 0 below the smallest observation.
CdfRisesFromZero ==
    LET lo == MinOf(Range(last.arg.data))
        cum == last.ret.cdf
    IN  /\ \A k \in DOMAIN cum : k < lo => cum[k] = Zero
        /\ \A k \in DOMAIN cum : (k + 1) \in DOMAIN cum => ~FLess(cum[k + 1], cum[k])

\* C23, as stated: the pmf values sum to 1, cdf is non-decreasing, 0 below
\* the smallest observation and 1 from the largest on, and the mean is the
\* sample mean.
C23_EmpiricalModel ==
    EmpiricalFitted =>
        LET hi == MaxOf(Range(last.arg.data))
            cum == last.ret.cdf
        IN  /\ PmfSum(last.ret.parameters, DOMAIN last.ret.parameters) = FromInt(1)
            /\ CdfRisesFromZero
            /\ \A k \in DOMAIN cum : k >= hi => cum[k] = FromInt(1)
            /\ last.ret.mean = FDivInt(SumSeq(last.arg.data), Len(last.arg.data))

\* C23, amended: the pmf values sum to 1 within 1e-6, cdf is non-decreasing,
\* 0 below the smallest observation, and from the largest observation on it
\* keeps one value that is within 1e-6 of 1; the mean is the sample mean to
\* a relative error of no more than 1e-6.
C23_Amended ==
    EmpiricalFitted =>
        LET hi == MaxOf(Range(last.arg.data))
            cum == last.ret.cdf
        IN  /\ Within1e6(PmfSum(last.ret.parameters, DOMAIN last.ret.parameters),
                         FromInt(1))
            /\ CdfRisesFromZero
            /\ \A k \in DOMAIN cum : k >= hi => (cum[k] = cum[hi] /\ Within1e6(cum[k], FromInt(1)))
            /\ WithinRelative1e6(last.ret.mean,
                                 FDivInt(SumSeq(last.arg.data), Len(last.arg.data)))

\* A model of several distinct counts whose cdf ends just under 1.
C23_Witness ==
    /\ EmpiricalFitted
    /\ Cardinality(DOMAIN last.ret.parameters) >= 3
    /\ FLess(last.ret.cdf[MaxOf(Range(last.arg.data))], FromInt(1))

\* The stage of the session: 0 Uninitialized, 1 ContractSet, 2 HistoryLoaded,
\* 3 DistributionFitted, 4 PricedPass1, 6 PricedFinal (5, Simulated, lasts
\* only inside run_simulation).
StageOf(s) ==
    IF s.contract = None THEN 0
    ELSE IF s.historical_data = None THEN 1
    ELSE IF s.distribution = None THEN 2
    ELSE IF s.pricing_results = None THEN 3
    ELSE IF s.simulation_results = None THEN 4
    ELSE 6

\* The session field a step completes.
FieldOf(op) ==
    IF op = "set_contract" THEN "contract"
    ELSE IF op = "set_historical_data" THEN "historical_data"
    ELSE IF op = "fit_distribution" THEN "distribution"
    ELSE IF op = "calculate_premium" THEN "pricing_results"
    ELSE "simulation_results"

SessionSteps ==
    {"set_contract", "set_historical_data", "fit_distribution", "calculate_premium",
     "run_simulation"}

\* C24: the session only moves forward through its stages, a step that has
\* completed cannot complete again, and at PricedFinal no operation changes
\* the session.
C24_ForwardOnly ==
    [][IsCall =>
        /\ StageOf(session') >= StageOf(session)
        /\ (last'.op \in SessionSteps /\ last'.status = "ok")
              => session[FieldOf(last'.op)] = None
        /\ (last'.op \in SessionSteps /\ StageOf(session) = 6)
              => session' = session
      ]_vars

\* The distribution the session holds was fitted from its historical data.
FittedFromCurrent ==
    session.distribution # None =>
        /\ session.historical_data # None
        /\ session.distribution.fitted_from = session.historical_data.a

\* The premium the session holds is one the pricing engine gives for the
\* session's contract and distribution, for some parameters of the caller and
\* either capital input.
PricedFromCurrent ==
    session.pricing_results # None =>
        /\ session.contract # None
        /\ session.distribution # None
        /\ \E pp \in PricingParamsInputs :
            \E var_99 \in {None} \cup (IF session.simulation_results = None THEN {}
                                       ELSE {[v |-> session.simulation_results.var_99]}) :
               session.pricing_results
                   = calculate_premium_fn(session.contract, session.distribution,
                         IF pp = None THEN DefaultPricingParameters ELSE pp, var_99)

\* The simulation the session holds is one a simulator gives for the session's
\* contract, distribution and historical data, for some parameters of the
\* caller.
SimulatedFromCurrent ==
    session.simulation_results # None =>
        /\ session.contract # None
        /\ session.distribution # None
        /\ \E sp \in SimParamsInputs, entropy \in Entropy :
               session.simulation_results
                   = run_of(MonteCarloSimulator(session.contract, session.distribution,
                                session.historical_data,
                                IF sp = None THEN DefaultSimulationParameters ELSE sp),
                            entropy).results

\* C25: no stale results: a distribution in the session was fitted from the
\* session's current historical data, and a premium and a simulation in the
\* session were computed from its current contract and distribution.
C25_NoStaleResults ==
    FittedFromCurrent /\ PricedFromCurrent /\ SimulatedFromCurrent

\* The amounts of a premium that do not depend on the capital.
Loadings(pricing) ==
    <<pricing.expected_payout, pricing.volatility_charge, pricing.basis_risk_charge,
      pricing.operational_cost>>

\* C26: the premium run_simulation stores (pass 2) is computed with the
\* pricing parameters the caller gave calculate_premium for pass 1:
\* volatility_charge, basis_risk_charge and operational_cost are the same in
\* both passes.
C26_SameParametersInPass2 ==
    [][(/\ IsCall
        /\ last.op = "calculate_premium" /\ last.status = "ok"
        /\ last'.op = "run_simulation" /\ last'.status = "ok")
          => /\ Loadings(session'.pricing_results) = Loadings(last.ret)
             /\ session'.pricing_results
                   = calculate_premium_fn(session.contract, session.distribution,
                         IF last.arg = None THEN DefaultPricingParameters ELSE last.arg,
                         [v |-> last'.ret.var_99])
      ]_vars

\* The session fields a step may change.
OwnFields(op, s) ==
    IF op = "run_simulation"
    THEN {"simulation_results"}
             \cup (IF s.pricing_results # None THEN {"pricing_results"} ELSE {})
    ELSE {FieldOf(op)}

\* C27: every step changes only its own session fields: set_contract the
\* contract, set_historical_data the historical data, fit_distribution the
\* distribution, calculate_premium the premium, run_simulation the simulation
\* and, when a premium is present, the premium; the contract, the historical
\* data and the distribution handed to the fitter and the engines come back
\* unchanged.
C27_FrameOfSteps ==
    [][(IsCall /\ last'.op \in SessionSteps) =>
        /\ \A f \in DOMAIN session :
               f \notin OwnFields(last'.op, session) => session'[f] = session[f]
        /\ last'.op \in {"fit_distribution", "calculate_premium", "run_simulation"}
              => /\ session'.contract = session.contract
                 /\ session'.historical_data = session.historical_data
        /\ last'.op \in {"calculate_premium", "run_simulation"}
              => session'.distribution = session.distribution
      ]_vars

\* A run_simulation that replaced both the simulation and the premium of a
\* session that had them, the contract, data and distribution staying.
C27_Witness ==
    /\ last.op = "run_simulation"
    /\ last.status = "ok"
    /\ session.simulation_results = last.ret
    /\ session.pricing_results # None
    /\ session.pricing_results.capital_required
           = (CAPITAL_VAR_MULTIPLIER_X2 * last.ret.var_99) \div 2
    /\ session.distribution.fitted_from = session.historical_data.a
    /\ session.contract = ExampleContract

\* C28: a step that raises leaves every session field as it was before the
\* call, set_historical_data with an empty sequence included.
C28_ErrorLeavesSession ==
    [][(IsCall /\ last'.op \in SessionSteps /\ last'.status = "error")
          => session' = session]_vars

\* The years of a sample whose payout under the contract is above zero.
PayingYears(contract, data) ==
    Cardinality({i \in 1..Len(data) : payout_of(contract, data[i]) > 0})

\* C29: the historical trigger frequency set_historical_data reports is the
\* share of the historical years whose payout under the session's contract is
\* above zero, also for a contract with maximum_payout_days = 0, and
\* price_contract always gets it reported.
C29_HistoricalTriggerFrequency ==
    IF last.op = "price_contract"
    THEN last.ret.locals.hist_stats # None
            => /\ last.ret.locals.hist_stats.has_trigger
               /\ last.ret.locals.hist_stats.historical_triggers
                     = PayingYears(last.arg.contract, last.arg.historical_data)
    ELSE (last.op = "set_historical_data" /\ last.status = "ok" /\ session.contract # None)
            => /\ last.ret.has_trigger
               /\ last.ret.stats.n_years = Len(session.historical_data.a)
               /\ last.ret.historical_triggers
                     = PayingYears(session.contract, session.historical_data.a)

\* A run with float payouts that returned its results.
FractionalReturned ==
    last.op = "MonteCarloSimulator.run, float payouts" /\ last.status = "ok"

\* x <= y, for floats.
FLeq(x, y) == ~FLess(y, x)

\* x <= y up to 2^-20 of y, for y >= 0.
FLeqRelative1e6(x, y) == FLeq(x, FAdd(y, FMul(Canonical(1, <<1>>, -20), y)))

\* Every payout is k * payout_rate_per_day for a whole k from 0 to
\* maximum_payout_days, min_payout and max_payout are the extremes of the
\* sample, and a bootstrap sample holds historical counts only.
PayoutsOnGrid ==
    LET c == last.arg.contract
        r == last.ret
        top == FMul(FromInt(c.maximum_payout_days), c.payout_rate_per_day)
    IN  /\ \A i \in 1..Len(r.simulated_payouts) :
               \E k \in 0..c.maximum_payout_days :
                   r.simulated_payouts[i] = FMul(FromInt(k), c.payout_rate_per_day)
        /\ FLeq(Zero, r.min_payout) /\ FLeq(r.min_payout, r.max_payout)
        /\ FLeq(r.max_payout, top)
        /\ \A i \in 1..Len(r.simulated_payouts) :
               FLeq(r.min_payout, r.simulated_payouts[i])
                   /\ FLeq(r.simulated_payouts[i], r.max_payout)
        /\ last.arg.params.method = "bootstrap"
               => \A i \in 1..Len(r.simulated_rainy_days) :
                      r.simulated_rainy_days[i] \in Range(MCHistory.a)

====
